---- MODULE Spec2Model ----
(***************************************************************************)
(* The job processing core of the video-dubbing service: the Job Store     *)
(* (JobService over the jobs table), the worker poll loop (Worker) and the *)
(* dubbing pipeline (JobProcessor.process_job), the AI client (AIService)  *)
(* with its retry helper, the media toolchain adapter (ffmpeg_helpers),    *)
(* the subtitle codec (subtitle_generator) and the Blob Store client       *)
(* (S3Service).                                                            *)
(***************************************************************************)
EXTENDS Integers, Sequences, FiniteSets, TLC

\* ------------------------------------------------------------------ bounds
\* Number of jobs the API creates.
NJobs == 2
\* Number of enqueue requests the API issues.
MaxEnqueues == 2
\* Largest number of segments a transcription returns.
MaxSegments == 1
\* Largest number of segments in the lists the AI client is followed with.
MaxLen == 2
\* Largest number of files given to concatenate_audio_files.
MaxFiles == 2
\* Largest number of segments given to generate_srt, and of blocks in the
\* SRT texts given to parse_srt and validate_srt.
MaxBlocks == 2
\* Resolution of the times: ticks per millisecond.
TicksPerMs == 2

\* --------------------------------------------------------------- constants
\* settings.MAX_VIDEO_DURATION_SECONDS, read by JobProcessor.MAX_VIDEO_DURATION
MAX_VIDEO_DURATION == 60
\* AIService.MAX_RETRIES
MAX_RETRIES == 2
\* AIService.RETRY_DELAYS
RETRY_DELAYS == <<1, 2>>

JobIds == 1..NJobs
Workers == {"w1", "w2"}
\* The single worker instance of the default deployment.
Solo == {"w1"}

\* Python's None / a present value.
None == <<>>
Some(v) == <<v>>

\* Durations the probe can report: the longest accepted one and one above it.
Durations == {MAX_VIDEO_DURATION, MAX_VIDEO_DURATION + 1}

VARIABLES
    jobs,      \* the jobs table: job id -> row
    clock,     \* number of jobs created so far (source of ids and created_at)
    enqueues,  \* number of enqueue requests served so far
    running,   \* Worker.running, per worker
    pc,        \* each worker's position in Worker.run / process_job
    cur,       \* the job id a worker holds (0: none)
    ws,        \* the run's temporary workspace: none, exists, removed, leftover
    local,     \* process_job locals: probed duration, number of segments
               \* transcribed, number of strings the translation provider
               \* returned (None before the probe / the call)
    hist,      \* the run's external calls and Job Store writes, in order
    result     \* how process_job ended: returned or raised, the message of
               \* the JobProcessingError, and the job's row at that moment

\* The AI client (AIService), followed through one transcription, its
\* translation and its synthesis.
VARIABLES
    ai_pc,       \* position of the AI client: idle, retry (inside
                 \* _retry_with_backoff), after (the helper has ended)
    method,      \* the AIService method in progress, "" when none
    attempt,     \* _retry_with_backoff: the loop variable
    func_calls,  \* number of calls of func by the helper
    sleeps,      \* the delays the helper has slept, in order
    errors,      \* the errors the wrapped operation has raised, in order
    last_error,  \* _retry_with_backoff: last_error
    helper,      \* how the helper ended: its return value or its exception
    segments,    \* the list transcribe_audio returned (None before)
    translation, \* the list translate_segments returned (None before)
    acc,         \* synthesize_segments: the list built so far
    synthesized, \* the list synthesize_segments returned (None before)
    ai_result    \* how the last method ended: returned, or raised and why
                 \* (empty while a method is in progress)

\* The media toolchain adapter (ffmpeg_helpers), followed through one call
\* of one of its operations at a time.
VARIABLES
    ff_pc,       \* position in the operation: idle, spawn (preconditions
                 \* passed, subprocess.run is next), output (the check of the
                 \* output file is next), parse (json.loads is next), done
    ff_op,       \* the operation in progress, "" when none
    ff_inputs,   \* for each input file of the call, whether it exists
    ff_spawned,  \* the subprocess.run invocations of the call, in order
    ff_proc,     \* what the last subprocess.run did
    ff_listfile, \* concatenate_audio_files: concat_list.txt exists
    ff_result    \* how the operation ended: returned or raised, and what

jobvars == <<jobs, clock, enqueues, running, pc, cur, ws, local, hist, result>>
aivars == <<ai_pc, method, attempt, func_calls, sleeps, errors, last_error, helper,
            segments, translation, acc, synthesized, ai_result>>
\* The subtitle codec (subtitle_generator), followed through one use: a
\* segment list encoded, decoded and encoded again; an SRT text parsed and
\* validated; a time formatted and parsed back.
VARIABLES
    srt_pc,        \* idle, encoded, decoded, reencoded, read, parsed,
                   \* validated, formatted, timed
    srt_given,     \* the segment list as the caller built it
    srt_segments,  \* the same list after generate_srt (it swaps in place)
    srt_encoded,   \* what generate_srt returned or raised
    srt_blocks,    \* how the SRT text given to parse_srt was written
    srt_content,   \* the SRT text given to parse_srt / validate_srt
    srt_parsed,    \* what parse_srt returned or raised
    srt_reencoded, \* what generate_srt made of the parsed segments
    srt_valid,     \* what validate_srt returned
    srt_time,      \* the time given to format_srt_time
    srt_stamp,     \* what format_srt_time returned
    srt_back       \* what parse_srt_time made of it

ffvars == <<ff_pc, ff_op, ff_inputs, ff_spawned, ff_proc, ff_listfile, ff_result>>
\* The state of the modules of worker/utils.
srtvars == <<srt_pc, srt_given, srt_segments, srt_encoded, srt_blocks,
             srt_content, srt_parsed, srt_reencoded, srt_valid, srt_time,
             srt_stamp, srt_back>>
\* The Blob Store client (S3Service), followed through one transfer with
\* retry at a time.
VARIABLES
    s3_pc,       \* none (not constructed), idle, try (inside the transfer),
                 \* done
    is_dev,      \* S3Service.is_dev
    s3_op,       \* the method in progress or last called, "" when none
    max_retries, \* the max_retries argument of the call
    s3_attempt,  \* the loop variable attempt
    s3_tries,    \* number of transfers attempted by the call
    s3_sleeps,   \* the wait_time values the call has slept, in order
    s3_errors,   \* the ClientErrors the call has caught, in order
    s3_result    \* how the call ended: returned or raised, and what

s3vars == <<s3_pc, is_dev, s3_op, max_retries, s3_attempt, s3_tries, s3_sleeps,
            s3_errors, s3_result>>
utilvars == <<ffvars, srtvars, s3vars>>
vars == <<jobvars, aivars, utilvars>>

\* ------------------------------------------------------------ JobService
\* JobService.create_job: a new row in status created with progress 0.
NewJob(stamp) ==
    [status |-> "created", progress |-> 0,
     video_duration_seconds |-> None,
     output_video_s3_key |-> None,
     source_subtitle_s3_key |-> None,
     target_subtitle_s3_key |-> None,
     error_message |-> None,
     created_at |-> stamp]

\* JobService.get_job: whether the row exists.
HasJob(db, j) == j \in DOMAIN db

\* JobService.update_job_status
update_job_status(db, j, st, pr) ==
    IF HasJob(db, j)
    THEN [db EXCEPT ![j].status = st, ![j].progress = pr]
    ELSE db

\* JobService.enqueue_job
enqueue_job(db, j) == update_job_status(db, j, "queued", 0)

\* JobService.complete_job
complete_job(db, j, vkey, skey, tkey) ==
    IF HasJob(db, j)
    THEN [db EXCEPT ![j].status = "done", ![j].progress = 100,
                    ![j].output_video_s3_key = Some(vkey),
                    ![j].source_subtitle_s3_key = Some(skey),
                    ![j].target_subtitle_s3_key = Some(tkey)]
    ELSE db

\* A variant of fail_job that puts the failed job back in the queue.
fail_job_requeues(db, j, msg) ==
    IF HasJob(db, j)
    THEN [db EXCEPT ![j].status = "queued", ![j].error_message = Some(msg)]
    ELSE db

\* A variant of fail_job that also resets the progress.
fail_job_resets_progress(db, j, msg) ==
    IF HasJob(db, j)
    THEN [db EXCEPT ![j].status = "failed", ![j].progress = 0,
                    ![j].error_message = Some(msg)]
    ELSE db

\* JobService.fail_job
fail_job(db, j, msg) ==
    IF HasJob(db, j)
    THEN [db EXCEPT ![j].status = "failed", ![j].error_message = Some(msg)]
    ELSE db

\* What JobService.fail_job returns: the refreshed row, or None when the job
\* does not exist.
fail_job_returns(db, j, msg) ==
    IF HasJob(db, j) THEN Some(fail_job(db, j, msg)[j]) ELSE None

\* JobService.update_video_duration
update_video_duration(db, j, d) ==
    IF HasJob(db, j)
    THEN [db EXCEPT ![j].video_duration_seconds = Some(d)]
    ELSE db

\* JobService.get_next_pending_job: the queued rows, oldest first.
Queued(db) == {j \in DOMAIN db : db[j].status = "queued"}

\* A variant of get_next_pending_job that orders by created_at descending.
get_next_pending_job_newest(db) ==
    IF Queued(db) = {}
    THEN 0
    ELSE CHOOSE j \in Queued(db) :
            \A k \in Queued(db) : db[j].created_at >= db[k].created_at

get_next_pending_job(db) ==
    IF Queued(db) = {}
    THEN 0
    ELSE CHOOSE j \in Queued(db) :
            \A k \in Queued(db) : db[j].created_at <= db[k].created_at

\* ------------------------------------------------------------- the events
\* An external call of the run.
CallEv(name) == [op |-> name, st |-> "", pr |-> -1]
\* A Job Store write of the run: the status and progress it writes ("" and
\* -1 where the write leaves the field alone).
WriteEv(name, st, pr) == [op |-> name, st |-> st, pr |-> pr]

\* ------------------------------------------------- the steps' exceptions
Exc(exc, msg) == [exc |-> exc, msg |-> msg]

\* What the external calls of the pipeline raise: each exception class of
\* the adapter the step calls, and an unclassified exception where the
\* adapter checks its input file itself.
Raises(call) ==
    CASE call = "get_video_duration" ->
            {Exc("FFmpegError", "FFprobe failed"),
             Exc("FileNotFoundError", "Video file not found")}
      [] call = "extract_audio" ->
            {Exc("FFmpegError", "FFmpeg failed")}
      [] call = "transcribe_audio" ->
            {Exc("AIServiceError", "Whisper transcription failed")}
      [] call = "translate_segments" ->
            {Exc("AIServiceError", "Translation failed"),
             Exc("AIServiceError", "Failed to parse translation response")}
      [] call = "synthesize_segments" ->
            {Exc("AIServiceError", "ElevenLabs TTS failed"),
             Exc("FFmpegError", "FFprobe failed")}
      [] call = "concatenate_audio_files" ->
            {Exc("FFmpegError", "FFmpeg failed")}
      [] call = "save_srt" ->
            {Exc("SubtitleError", "Invalid segment timing")}
      [] call = "mux_audio_video" ->
            {Exc("FFmpegError", "FFmpeg failed")}
      [] OTHER ->
            {Exc("S3ServiceError", "upload failed")}

\* process_job's except clauses: the prefix of the error message.
ErrorPrefix(exc) ==
    CASE exc = "FFmpegError" -> "Video processing error"
      [] exc = "AIServiceError" -> "AI service error"
      [] exc = "SubtitleError" -> "Subtitle generation error"
      [] OTHER -> "Unexpected error"

\* A variant of the except clauses in which SubtitleError is re-raised like
\* JobProcessingError, without fail_job.
RecordsFailureNotSubtitle(exc) == exc \notin {"JobProcessingError", "SubtitleError"}

\* process_job's except clauses: which exceptions are recorded with fail_job
\* (JobProcessingError is re-raised without wrapping).
RecordsFailure(exc) == exc # "JobProcessingError"

\* _cleanup_temp_dir: rmtree removes the directory, or raises and the
\* error is logged and swallowed.
CleanupOutcomes == {"removed", "leftover"}


\* --------------------------------------------------------------- the API
\* POST /jobs -> JobService.create_job
CreateJob ==
    /\ clock < NJobs
    /\ clock' = clock + 1
    /\ jobs' = jobs @@ ((clock + 1) :> NewJob(clock + 1))
    /\ UNCHANGED <<aivars, utilvars, enqueues, running, pc, cur, ws, local, hist, result>>

\* POST /jobs/{job_id}/enqueue -> JobService.enqueue_job (404 when the job
\* does not exist, no check of the job's current status)
EnqueueJob(j) ==
    /\ HasJob(jobs, j)
    /\ enqueues < MaxEnqueues
    /\ enqueues' = enqueues + 1
    /\ jobs' = enqueue_job(jobs, j)
    /\ UNCHANGED <<aivars, utilvars, clock, running, pc, cur, ws, local, hist, result>>

\* JobService.delete_job: the row is removed; nothing for a missing job.
delete_job(db, j) ==
    IF HasJob(db, j) THEN [k \in DOMAIN db \ {j} |-> db[k]] ELSE db

\* DELETE /jobs/{job_id} -> JobService.delete_job (no check of the job's
\* status; success also when the job does not exist)
DeleteJob(j) ==
    /\ jobs' = delete_job(jobs, j)
    /\ UNCHANGED <<aivars, utilvars, clock, enqueues, running, pc, cur, ws, local, hist, result>>

\* ------------------------------------------------------- the worker loop
NoLocal == [duration |-> None, nseg |-> None, ntrans |-> None]
NoResult == [kind |-> "", cause |-> "", msg |-> <<>>, row |-> None]

\* The job's row as the caller of process_job finds it.
RowOf(db, j) == IF HasJob(db, j) THEN Some(db[j]) ELSE None

Goto(w, next) == pc' = [pc EXCEPT ![w] = next]
Log(w, evs) == hist' = [hist EXCEPT ![w] = @ \o evs]

\* Worker.run: the test of `while self.running`
LoopCheck(w) ==
    /\ pc[w] = "loop"
    /\ Goto(w, IF running[w] THEN "poll" ELSE "stopped")
    /\ UNCHANGED <<aivars, utilvars, jobs, clock, enqueues, running, cur, ws, local, hist, result>>

\* A variant of Poll that claims atomically: the job it reads is marked
\* processing in the same step.
PollAndMark(w) ==
    /\ pc[w] = "poll"
    /\ LET j == get_next_pending_job(jobs)
       IN IF j = 0
          THEN Goto(w, "loop") /\ UNCHANGED <<cur, jobs>>
          ELSE /\ Goto(w, "claimed")
               /\ cur' = [cur EXCEPT ![w] = j]
               /\ jobs' = update_job_status(jobs, j, "processing", 0)
    /\ UNCHANGED <<aivars, utilvars, clock, enqueues, running, ws, local, hist, result>>

\* A variant of Poll that polls again while process_job is still running.
PollDuringRun(w) ==
    /\ pc[w] \notin {"loop", "claimed", "stopped"}
    /\ LET j == get_next_pending_job(jobs)
       IN IF j = 0
          THEN Goto(w, "loop") /\ UNCHANGED cur
          ELSE Goto(w, "claimed") /\ cur' = [cur EXCEPT ![w] = j]
    /\ UNCHANGED <<aivars, utilvars, jobs, clock, enqueues, running, ws, local, hist, result>>

\* Worker.process_next_job: get_next_pending_job; with no queued job
\* process_next_job returns False and run() sleeps POLL_INTERVAL.
Poll(w) ==
    /\ pc[w] = "poll"
    /\ LET j == get_next_pending_job(jobs)
       IN IF j = 0
          THEN Goto(w, "loop") /\ UNCHANGED cur
          ELSE Goto(w, "claimed") /\ cur' = [cur EXCEPT ![w] = j]
    /\ UNCHANGED <<aivars, utilvars, jobs, clock, enqueues, running, ws, local, hist, result>>

\* Worker.process_next_job: mark the job as processing
MarkProcessing(w) ==
    /\ pc[w] = "claimed"
    /\ jobs' = update_job_status(jobs, cur[w], "processing", 0)
    /\ Log(w, IF HasJob(jobs, cur[w])
              THEN <<WriteEv("update_job_status", "processing", 0)>>
              ELSE <<>>)
    /\ Goto(w, "enter")
    /\ UNCHANGED <<aivars, utilvars, clock, enqueues, running, cur, ws, local, result>>

\* A variant of Shutdown in which the signal ends the worker where it is,
\* as the default SIGINT handler would.
ShutdownInterrupts(w) ==
    /\ running[w]
    /\ running' = [running EXCEPT ![w] = FALSE]
    /\ Goto(w, "stopped")
    /\ UNCHANGED <<aivars, utilvars, jobs, clock, enqueues, cur, ws, local, hist, result>>

\* Worker._handle_shutdown: SIGINT / SIGTERM
Shutdown(w) ==
    /\ running[w]
    /\ running' = [running EXCEPT ![w] = FALSE]
    /\ UNCHANGED <<aivars, utilvars, jobs, clock, enqueues, pc, cur, ws, local, hist, result>>

\* A variant of Return in which a JobProcessingError ends the poll loop.
ReturnStopsOnError(w) ==
    /\ pc[w] = "exited"
    /\ Goto(w, IF result[w].kind = "raised" THEN "stopped" ELSE "loop")
    /\ cur' = [cur EXCEPT ![w] = 0]
    /\ ws' = [ws EXCEPT ![w] = "none"]
    /\ local' = [local EXCEPT ![w] = NoLocal]
    /\ hist' = [hist EXCEPT ![w] = <<>>]
    /\ result' = [result EXCEPT ![w] = NoResult]
    /\ UNCHANGED <<aivars, utilvars, jobs, clock, enqueues, running>>

\* Worker.process_next_job / Worker.run: process_job has returned or raised
\* JobProcessingError; either way the loop goes on.
Return(w) ==
    /\ pc[w] = "exited"
    /\ Goto(w, "loop")
    /\ cur' = [cur EXCEPT ![w] = 0]
    /\ ws' = [ws EXCEPT ![w] = "none"]
    /\ local' = [local EXCEPT ![w] = NoLocal]
    /\ hist' = [hist EXCEPT ![w] = <<>>]
    /\ result' = [result EXCEPT ![w] = NoResult]
    /\ UNCHANGED <<aivars, utilvars, jobs, clock, enqueues, running>>

\* ----------------------------------------------------------- process_job
\* update_progress, the helper nested in process_job
update_progress(db, j, st, pr) == update_job_status(db, j, st, pr)

\* The events of a step: its external calls, then the write that follows,
\* when the job is still in the store.
StepEvents(w, calls, write) ==
    calls \o (IF HasJob(jobs, cur[w]) THEN <<write>> ELSE <<>>)

\* A step that succeeds: the external calls, then update_progress.
Advance(w, calls, st, pr, next) ==
    /\ jobs' = update_progress(jobs, cur[w], st, pr)
    /\ Log(w, StepEvents(w, calls, WriteEv("update_job_status", st, pr)))
    /\ Goto(w, next)
    /\ UNCHANGED <<aivars, utilvars, clock, enqueues, running, cur, ws, local, result>>

\* The message process_job's except clause builds for the exception.
ErrorMsg(e) ==
    IF RecordsFailure(e.exc) THEN <<ErrorPrefix(e.exc), e.msg>> ELSE <<e.msg>>

\* The except clauses and the finally clause of process_job: the exception
\* of a step is recorded with fail_job (unless it is a JobProcessingError),
\* the workspace is cleaned up and JobProcessingError reaches the caller.
Raise(w, calls, e) ==
    /\ jobs' = IF RecordsFailure(e.exc)
               THEN fail_job(jobs, cur[w], ErrorMsg(e))
               ELSE jobs
    /\ Log(w, IF RecordsFailure(e.exc)
              THEN StepEvents(w, calls, WriteEv("fail_job", "failed", -1))
              ELSE calls)
    /\ \E c \in CleanupOutcomes : ws' = [ws EXCEPT ![w] = c]
    /\ result' = [result EXCEPT ![w] =
                    [kind |-> "raised", cause |-> e.exc, msg |-> ErrorMsg(e),
                     row |-> RowOf(jobs', cur[w])]]
    /\ Goto(w, "exited")
    /\ UNCHANGED <<aivars, utilvars, clock, enqueues, running, cur>>

\* A step whose external call raises.
Fail(w, calls, e) == Raise(w, calls, e) /\ UNCHANGED local

\* A variant of Enter that makes the workspace before it looks the job up.
EnterMakesWorkspaceFirst(w) ==
    /\ pc[w] = "enter"
    /\ ws' = [ws EXCEPT ![w] = "exists"]
    /\ IF HasJob(jobs, cur[w])
       THEN /\ Goto(w, "start")
            /\ UNCHANGED result
       ELSE /\ result' = [result EXCEPT ![w] =
                  [kind |-> "raised", cause |-> "JobProcessingError",
                   msg |-> <<"Job not found">>, row |-> None]]
            /\ Goto(w, "exited")
    /\ UNCHANGED <<aivars, utilvars, jobs, clock, enqueues, running, cur, local, hist>>

\* get_job and mkdtemp at the head of process_job
Enter(w) ==
    /\ pc[w] = "enter"
    /\ IF HasJob(jobs, cur[w])
       THEN /\ ws' = [ws EXCEPT ![w] = "exists"]
            /\ Goto(w, "start")
            /\ UNCHANGED result
       ELSE /\ result' = [result EXCEPT ![w] =
                  [kind |-> "raised", cause |-> "JobProcessingError",
                   msg |-> <<"Job not found">>, row |-> None]]
            /\ Goto(w, "exited")
            /\ UNCHANGED ws
    /\ UNCHANGED <<aivars, utilvars, jobs, clock, enqueues, running, cur, local, hist>>

\* Step 1: update_progress(PROCESSING, 0)
Start(w) ==
    /\ pc[w] = "start"
    /\ Advance(w, <<>>, "processing", 0, "download")

\* Step 1: _download_video
Download(w) ==
    /\ pc[w] = "download"
    /\ \/ /\ Log(w, <<CallEv("download_file_with_retry")>>)
          /\ Goto(w, "probe")
          /\ UNCHANGED <<aivars, utilvars, jobs, clock, enqueues, running, cur, ws, local, result>>
       \/ \E m \in {"Failed to download video from S3",
                    "Video file not found after download"} :
            Fail(w, <<CallEv("download_file_with_retry")>>,
                 Exc("JobProcessingError", m))

\* A variant of Probe that stores the measured duration before it checks it.
ProbeWritesDurationFirst(w) ==
    /\ pc[w] = "probe"
    /\ \/ \E d \in Durations :
            /\ jobs' = update_video_duration(jobs, cur[w], d)
            /\ local' = [local EXCEPT ![w].duration = Some(d)]
            /\ IF d > MAX_VIDEO_DURATION
               THEN /\ Log(w, <<CallEv("get_video_duration")>>)
                    /\ \E c \in CleanupOutcomes : ws' = [ws EXCEPT ![w] = c]
                    /\ result' = [result EXCEPT ![w] =
                          [kind |-> "raised", cause |-> "JobProcessingError",
                           msg |-> <<"Video too long">>, row |-> RowOf(jobs', cur[w])]]
                    /\ Goto(w, "exited")
                    /\ UNCHANGED <<aivars, utilvars, clock, enqueues, running, cur>>
               ELSE /\ Log(w, StepEvents(w, <<CallEv("get_video_duration")>>,
                                         WriteEv("update_video_duration", "", -1)))
                    /\ Goto(w, "begin_transcribing")
                    /\ UNCHANGED <<aivars, utilvars, clock, enqueues, running, cur, ws, result>>
       \/ \E e \in Raises("get_video_duration") :
            Fail(w, <<CallEv("get_video_duration")>>, e)

\* Step 2: get_video_duration, the duration check, update_video_duration
Probe(w) ==
    /\ pc[w] = "probe"
    /\ \/ \E d \in Durations :
            IF d > MAX_VIDEO_DURATION
            THEN /\ Raise(w, <<CallEv("get_video_duration")>>,
                          Exc("JobProcessingError", "Video too long"))
                 /\ local' = [local EXCEPT ![w].duration = Some(d)]
            ELSE /\ jobs' = update_video_duration(jobs, cur[w], d)
                 /\ Log(w, StepEvents(w, <<CallEv("get_video_duration")>>,
                                      WriteEv("update_video_duration", "", -1)))
                 /\ local' = [local EXCEPT ![w].duration = Some(d)]
                 /\ Goto(w, "begin_transcribing")
                 /\ UNCHANGED <<aivars, utilvars, clock, enqueues, running, cur, ws, result>>
       \/ \E e \in Raises("get_video_duration") :
            Fail(w, <<CallEv("get_video_duration")>>, e)

\* A variant of BeginTranscribing that reports 25 when transcribing starts.
BeginTranscribingAt25(w) ==
    /\ pc[w] = "begin_transcribing"
    /\ Advance(w, <<>>, "transcribing", 25, "extract")

\* Step 2: update_progress(TRANSCRIBING, 5)
BeginTranscribing(w) ==
    /\ pc[w] = "begin_transcribing"
    /\ Advance(w, <<>>, "transcribing", 5, "extract")

\* A variant of Extract that reports 25 once the audio is extracted.
ExtractAt25(w) ==
    /\ pc[w] = "extract"
    /\ \/ Advance(w, <<CallEv("extract_audio")>>, "transcribing", 25, "transcribe")
       \/ \E e \in Raises("extract_audio") :
            Fail(w, <<CallEv("extract_audio")>>, e)

\* Step 3: extract_audio, update_progress(TRANSCRIBING, 10)
Extract(w) ==
    /\ pc[w] = "extract"
    /\ \/ Advance(w, <<CallEv("extract_audio")>>, "transcribing", 10, "transcribe")
       \/ \E e \in Raises("extract_audio") :
            Fail(w, <<CallEv("extract_audio")>>, e)

\* A variant of Transcribe without the no-speech check: an empty
\* transcription goes on to translation.
TranscribeAcceptsEmpty(w) ==
    /\ pc[w] = "transcribe"
    /\ \/ \E n \in 0..MaxSegments :
            /\ jobs' = update_progress(jobs, cur[w], "translating", 25)
            /\ Log(w, StepEvents(w, <<CallEv("transcribe_audio")>>,
                         WriteEv("update_job_status", "translating", 25)))
            /\ local' = [local EXCEPT ![w].nseg = Some(n)]
            /\ Goto(w, "translate")
            /\ UNCHANGED <<aivars, utilvars, clock, enqueues, running, cur, ws, result>>
       \/ \E e \in Raises("transcribe_audio") :
            Fail(w, <<CallEv("transcribe_audio")>>, e)

\* Step 4: transcribe_audio, the no-speech check, update_progress(TRANSLATING, 25)
Transcribe(w) ==
    /\ pc[w] = "transcribe"
    /\ \/ \E n \in 0..MaxSegments :
            IF n = 0
            THEN /\ Raise(w, <<CallEv("transcribe_audio")>>,
                          Exc("JobProcessingError", "No speech detected"))
                 /\ local' = [local EXCEPT ![w].nseg = Some(n)]
            ELSE /\ jobs' = update_progress(jobs, cur[w], "translating", 25)
                 /\ Log(w, StepEvents(w, <<CallEv("transcribe_audio")>>,
                              WriteEv("update_job_status", "translating", 25)))
                 /\ local' = [local EXCEPT ![w].nseg = Some(n)]
                 /\ Goto(w, "translate")
                 /\ UNCHANGED <<aivars, utilvars, clock, enqueues, running, cur, ws, result>>
       \/ \E e \in Raises("transcribe_audio") :
            Fail(w, <<CallEv("transcribe_audio")>>, e)

\* The numbers of strings the translation provider can return for n
\* segments: as many, or one less.
ReplyCounts(n) == {m \in {n - 1, n} : m >= 0}

\* translate_segments: the provider's reply passes the count check
\* len(translated_texts) != len(segments), or AIServiceError is raised.
Translated(w, m, st, pr) ==
    IF local[w].nseg = Some(m)
    THEN /\ jobs' = update_progress(jobs, cur[w], st, pr)
         /\ Log(w, StepEvents(w, <<CallEv("translate_segments")>>,
                              WriteEv("update_job_status", st, pr)))
         /\ local' = [local EXCEPT ![w].ntrans = Some(m)]
         /\ Goto(w, "synthesize")
         /\ UNCHANGED <<aivars, utilvars, clock, enqueues, running, cur, ws, result>>
    ELSE /\ Raise(w, <<CallEv("translate_segments")>>,
                  Exc("AIServiceError", "Translation count mismatch"))
         /\ local' = [local EXCEPT ![w].ntrans = Some(m)]

\* A variant of Translate that skips the synthesizing status.
TranslateSkipsSynthesizing(w) ==
    /\ pc[w] = "translate"
    /\ \/ \E m \in ReplyCounts(local[w].nseg[1]) :
            Translated(w, m, "processing_video", 50)
       \/ \E e \in Raises("translate_segments") :
            Fail(w, <<CallEv("translate_segments")>>, e)

\* A variant of Translate without the count check: a shorter reply is
\* taken as the translation.
TranslateTruncates(w) ==
    /\ pc[w] = "translate"
    /\ \/ \E m \in ReplyCounts(local[w].nseg[1]) :
            /\ jobs' = update_progress(jobs, cur[w], "synthesizing", 50)
            /\ Log(w, StepEvents(w, <<CallEv("translate_segments")>>,
                         WriteEv("update_job_status", "synthesizing", 50)))
            /\ local' = [local EXCEPT ![w].ntrans = Some(m)]
            /\ Goto(w, "synthesize")
            /\ UNCHANGED <<aivars, utilvars, clock, enqueues, running, cur, ws, result>>
       \/ \E e \in Raises("translate_segments") :
            Fail(w, <<CallEv("translate_segments")>>, e)

\* Step 5: translate_segments, update_progress(SYNTHESIZING, 50)
Translate(w) ==
    /\ pc[w] = "translate"
    /\ \/ \E m \in ReplyCounts(local[w].nseg[1]) :
            Translated(w, m, "synthesizing", 50)
       \/ \E e \in Raises("translate_segments") :
            Fail(w, <<CallEv("translate_segments")>>, e)

\* Step 6: synthesize_segments, update_progress(PROCESSING_VIDEO, 70)
Synthesize(w) ==
    /\ pc[w] = "synthesize"
    /\ \/ Advance(w, <<CallEv("synthesize_segments")>>, "processing_video", 70, "concatenate")
       \/ \E e \in Raises("synthesize_segments") :
            Fail(w, <<CallEv("synthesize_segments")>>, e)

\* Step 7: _create_dubbed_audio, update_progress(PROCESSING_VIDEO, 80)
Concatenate(w) ==
    /\ pc[w] = "concatenate"
    /\ IF local[w].nseg = Some(0)
       THEN Fail(w, <<>>, Exc("JobProcessingError", "No audio segments to concatenate"))
       ELSE \/ Advance(w, <<CallEv("concatenate_audio_files")>>, "processing_video", 80, "subtitles")
            \/ \E e \in Raises("concatenate_audio_files") :
                 Fail(w, <<CallEv("concatenate_audio_files")>>, e)

\* Step 8: save_srt twice, update_progress(PROCESSING_VIDEO, 85)
Subtitles(w) ==
    /\ pc[w] = "subtitles"
    /\ \/ Advance(w, <<CallEv("save_srt"), CallEv("save_srt")>>, "processing_video", 85, "mux")
       \/ \E e \in Raises("save_srt"), k \in 1..2 :
            Fail(w, [i \in 1..k |-> CallEv("save_srt")], e)

\* Step 9: mux_audio_video, update_progress(PROCESSING_VIDEO, 90)
Mux(w) ==
    /\ pc[w] = "mux"
    /\ \/ Advance(w, <<CallEv("mux_audio_video")>>, "processing_video", 90, "upload")
       \/ \E e \in Raises("mux_audio_video") :
            Fail(w, <<CallEv("mux_audio_video")>>, e)

\* A variant of step 10 that uploads the subtitles before the video.
UploadsSubtitlesFirst ==
    <<CallEv("upload_source_subtitle"), CallEv("upload_target_subtitle"),
      CallEv("upload_video")>>

\* The three uploads of step 10, in order.
Uploads == <<CallEv("upload_video"), CallEv("upload_source_subtitle"),
             CallEv("upload_target_subtitle")>>

\* A variant of Upload that leaves the target subtitle out.
UploadSkipsTarget(w) ==
    /\ pc[w] = "upload"
    /\ \/ Advance(w, SubSeq(Uploads, 1, 2), "processing_video", 95, "complete")
       \/ \E e \in Raises("upload_file_with_retry"), k \in 1..2 :
            Fail(w, SubSeq(Uploads, 1, k), e)

\* Step 10: upload_file_with_retry three times, update_progress(PROCESSING_VIDEO, 95)
Upload(w) ==
    /\ pc[w] = "upload"
    /\ \/ Advance(w, Uploads, "processing_video", 95, "complete")
       \/ \E e \in Raises("upload_file_with_retry"), k \in 1..3 :
            Fail(w, SubSeq(Uploads, 1, k), e)

\* Step 11: complete_job
Complete(w) ==
    /\ pc[w] = "complete"
    /\ jobs' = complete_job(jobs, cur[w], <<"outputs", cur[w]>>,
                            <<"subtitles_source", cur[w]>>,
                            <<"subtitles_target", cur[w]>>)
    /\ Log(w, StepEvents(w, <<>>, WriteEv("complete_job", "done", 100)))
    /\ Goto(w, "finish")
    /\ UNCHANGED <<aivars, utilvars, clock, enqueues, running, cur, ws, local, result>>

\* A variant of Finish in which the last progress update raises after
\* complete_job, so the except clause records a failure.
FinishRaises(w) ==
    /\ pc[w] = "finish"
    /\ Fail(w, <<>>, Exc("RuntimeError", "progress update failed"))

\* A variant of Finish that returns without cleaning the workspace up.
FinishNoCleanup(w) ==
    /\ pc[w] = "finish"
    /\ jobs' = update_progress(jobs, cur[w], "done", 100)
    /\ Log(w, StepEvents(w, <<>>, WriteEv("update_job_status", "done", 100)))
    /\ result' = [result EXCEPT ![w] =
                    [kind |-> "returned", cause |-> "", msg |-> <<>>,
                     row |-> RowOf(jobs', cur[w])]]
    /\ Goto(w, "exited")
    /\ UNCHANGED <<aivars, utilvars, clock, enqueues, running, cur, local, ws>>

\* Step 11: update_progress(DONE, 100), return True, the finally clause
Finish(w) ==
    /\ pc[w] = "finish"
    /\ jobs' = update_progress(jobs, cur[w], "done", 100)
    /\ Log(w, StepEvents(w, <<>>, WriteEv("update_job_status", "done", 100)))
    /\ \E c \in CleanupOutcomes : ws' = [ws EXCEPT ![w] = c]
    /\ result' = [result EXCEPT ![w] =
                    [kind |-> "returned", cause |-> "", msg |-> <<>>,
                     row |-> RowOf(jobs', cur[w])]]
    /\ Goto(w, "exited")
    /\ UNCHANGED <<aivars, utilvars, clock, enqueues, running, cur, local>>

\* One step of a worker.
WorkerStep(w) ==
    \/ LoopCheck(w) \/ Poll(w) \/ MarkProcessing(w) \/ Return(w)
    \/ Enter(w) \/ Start(w) \/ Download(w) \/ Probe(w) \/ BeginTranscribing(w)
    \/ Extract(w) \/ Transcribe(w) \/ Translate(w) \/ Synthesize(w)
    \/ Concatenate(w) \/ Subtitles(w) \/ Mux(w) \/ Upload(w)
    \/ Complete(w) \/ Finish(w)

\* ---------------------------------------------------------- the AI client
\* What the providers can raise, and what they return.
ProviderErrors == {"timeout", "rate limit"}
\* The (start, end) pairs of the segments Whisper reports.
Times == {<<0, 2>>, <<3, 5>>}
\* The sequences over S of length at most n.
SeqsUpTo(S, n) == UNION {[1..k -> S] : k \in 0..n}

\* response.segments of a Whisper response
WhisperReplies ==
    {[i \in DOMAIN q |-> [start |-> q[i][1], end |-> q[i][2], text |-> "hello"]] :
        q \in SeqsUpTo(Times, MaxLen)}
\* The chat completion's content: text that is a JSON array of as many
\* strings as there are segments or of one less, or text that is not JSON.
ChatReplies(n) ==
    {[json |-> TRUE, texts |-> [i \in 1..m |-> "namaste"]] : m \in ReplyCounts(n)}
    \cup {[json |-> FALSE, texts |-> <<>>]}

\* The log description each method passes to _retry_with_backoff.
Description(m) ==
    CASE m = "transcribe_audio" -> "Whisper transcription"
      [] m = "translate_segments" -> "Translation"
      [] OTHER -> "ElevenLabs TTS"

\* transcribe_audio: the TranscriptionSegment list built from the response
\* (enumerate from 0, id = i + 1).
TranscriptionSegments(response) ==
    [i \in DOMAIN response |->
        [id |-> i, start |-> response[i].start, end |-> response[i].end,
         text |-> response[i].text]]

\* The shorter of two lengths: zip stops at the shorter list.
Min(a, b) == IF a <= b THEN a ELSE b

\* translate_segments: the TranslationSegment list built by
\* zip(segments, translated_texts).
TranslationSegments(segs, texts) ==
    [i \in 1..Min(Len(segs), Len(texts)) |->
        [id |-> segs[i].id, start |-> segs[i].start, end |-> segs[i].end,
         original_text |-> segs[i].text, translated_text |-> texts[i]]]

\* synthesize_segments: the SynthesizedSegment built for one segment.
SynthesizedSegment(seg, duration) ==
    [id |-> seg.id, start |-> seg.start, end |-> seg.end,
     text |-> seg.translated_text, actual_duration |-> duration]

NoHelper == [kind |-> "none", value |-> None, cause |-> None]
NoAIResult == [kind |-> "", method |-> "", msg |-> <<>>]
Returned(m) == [kind |-> "returned", method |-> m, msg |-> <<>>]
Raised(m, msg) == [kind |-> "raised", method |-> m, msg |-> msg]

\* The AI client before its first call.
AIInit ==
    /\ ai_pc = "idle" /\ method = ""
    /\ attempt = 0 /\ func_calls = 0 /\ sleeps = <<>> /\ errors = <<>>
    /\ last_error = None /\ helper = NoHelper
    /\ segments = None /\ translation = None /\ acc = <<>>
    /\ synthesized = None /\ ai_result = NoAIResult

\* _retry_with_backoff is entered: last_error = None, the loop starts.
EnterHelper ==
    /\ attempt' = 0 /\ func_calls' = 0 /\ sleeps' = <<>> /\ errors' = <<>>
    /\ last_error' = None /\ helper' = NoHelper
    /\ ai_pc' = "retry"

\* A method ends: it returned or raised res.
EndMethod(res) ==
    /\ ai_result' = res
    /\ ai_pc' = "idle"
    /\ method' = ""

\* What the wrapped operation of the method in progress returns.
ProviderReplies ==
    CASE method = "transcribe_audio" -> WhisperReplies
      [] method = "translate_segments" -> ChatReplies(Len(segments[1]))
      [] OTHER -> {"audio"}

\* A variant of AttemptReturns that goes through every pass of the loop and
\* returns the result of the last one.
AttemptReturnsGoesOn ==
    /\ ai_pc = "retry"
    /\ func_calls' = func_calls + 1
    /\ \E v \in ProviderReplies :
          IF attempt < MAX_RETRIES
          THEN /\ attempt' = attempt + 1
               /\ UNCHANGED <<helper, ai_pc>>
          ELSE /\ helper' = [kind |-> "returned", value |-> Some(v), cause |-> None]
               /\ ai_pc' = "after"
               /\ UNCHANGED attempt
    /\ UNCHANGED <<jobvars, utilvars, method, sleeps, errors, last_error,
                   segments, translation, acc, synthesized, ai_result>>

\* _retry_with_backoff: one pass of the loop in which func returns.
AttemptReturns ==
    /\ ai_pc = "retry"
    /\ \E v \in ProviderReplies :
          helper' = [kind |-> "returned", value |-> Some(v), cause |-> None]
    /\ func_calls' = func_calls + 1
    /\ ai_pc' = "after"
    /\ UNCHANGED <<jobvars, utilvars, method, attempt, sleeps, errors, last_error,
                   segments, translation, acc, synthesized, ai_result>>

\* A variant of AttemptFails with a fourth pass, which sleeps the last
\* delay again after the third failure.
AttemptFailsFourTimes ==
    /\ ai_pc = "retry"
    /\ \E e \in ProviderErrors :
          /\ errors' = Append(errors, e)
          /\ last_error' = Some(e)
    /\ func_calls' = func_calls + 1
    /\ IF attempt < MAX_RETRIES + 1
       THEN /\ sleeps' = Append(sleeps, RETRY_DELAYS[Min(attempt + 1, MAX_RETRIES)])
            /\ attempt' = attempt + 1
            /\ UNCHANGED <<helper, ai_pc>>
       ELSE /\ helper' = [kind |-> "raised", value |-> None, cause |-> last_error']
            /\ ai_pc' = "after"
            /\ UNCHANGED <<sleeps, attempt>>
    /\ UNCHANGED <<jobvars, utilvars, method, segments, translation, acc, synthesized,
                   ai_result>>

\* _retry_with_backoff: one pass of the loop in which func raises: the
\* error is kept, and the helper sleeps RETRY_DELAYS[attempt] and goes on,
\* or, after the last pass, raises AIServiceError with last_error.
AttemptFails ==
    /\ ai_pc = "retry"
    /\ \E e \in ProviderErrors :
          /\ errors' = Append(errors, e)
          /\ last_error' = Some(e)
    /\ func_calls' = func_calls + 1
    /\ IF attempt < MAX_RETRIES
       THEN /\ sleeps' = Append(sleeps, RETRY_DELAYS[attempt + 1])
            /\ attempt' = attempt + 1
            /\ UNCHANGED <<helper, ai_pc>>
       ELSE /\ helper' = [kind |-> "raised", value |-> None, cause |-> last_error']
            /\ ai_pc' = "after"
            /\ UNCHANGED <<sleeps, attempt>>
    /\ UNCHANGED <<jobvars, utilvars, method, segments, translation, acc, synthesized,
                   ai_result>>

\* The AIServiceError the helper raised, as the method passes it on.
HelperError == <<Description(method), "failed", helper.cause[1]>>

\* transcribe_audio is called.
TranscribeAudio ==
    /\ ai_pc = "idle" /\ segments = None
    /\ method' = "transcribe_audio"
    /\ ai_result' = NoAIResult
    /\ EnterHelper
    /\ UNCHANGED <<jobvars, utilvars, segments, translation, acc, synthesized>>

\* transcribe_audio after the helper: the segments are built from the
\* response, or the helper's error is passed on.
TranscribeAudioEnds ==
    /\ ai_pc = "after" /\ method = "transcribe_audio"
    /\ IF helper.kind = "returned"
       THEN /\ segments' = Some(TranscriptionSegments(helper.value[1]))
            /\ EndMethod(Returned(method))
       ELSE /\ EndMethod(Raised(method, HelperError))
            /\ UNCHANGED segments
    /\ UNCHANGED <<jobvars, utilvars, attempt, func_calls, sleeps, errors, last_error, helper,
                   translation, acc, synthesized>>

\* translate_segments is called: an empty list is returned as it is,
\* otherwise the provider is called through the helper.
TranslateSegments ==
    /\ ai_pc = "idle" /\ segments # None /\ translation = None
    /\ IF segments[1] = <<>>
       THEN /\ translation' = Some(<<>>)
            /\ ai_result' = Returned("translate_segments")
            /\ UNCHANGED <<ai_pc, method, attempt, func_calls, sleeps, errors,
                           last_error, helper>>
       ELSE /\ method' = "translate_segments"
            /\ ai_result' = NoAIResult
            /\ EnterHelper
            /\ UNCHANGED translation
    /\ UNCHANGED <<jobvars, utilvars, segments, acc, synthesized>>

\* A variant of TranslateSegmentsEnds without the count check.
TranslateSegmentsEndsUnchecked ==
    /\ ai_pc = "after" /\ method = "translate_segments"
    /\ IF helper.kind = "returned"
       THEN LET reply == helper.value[1]
            IN IF ~reply.json
               THEN /\ EndMethod(Raised(method, <<"Failed to parse translation response">>))
                    /\ UNCHANGED translation
               ELSE /\ translation' = Some(TranslationSegments(segments[1], reply.texts))
                    /\ EndMethod(Returned(method))
       ELSE /\ EndMethod(Raised(method, HelperError))
            /\ UNCHANGED translation
    /\ UNCHANGED <<jobvars, utilvars, attempt, func_calls, sleeps, errors, last_error, helper,
                   segments, acc, synthesized>>

\* translate_segments after the helper: json.loads, the count check, the
\* TranslationSegment list; or the helper's error is passed on.
TranslateSegmentsEnds ==
    /\ ai_pc = "after" /\ method = "translate_segments"
    /\ IF helper.kind = "returned"
       THEN LET reply == helper.value[1]
            IN IF ~reply.json
               THEN /\ EndMethod(Raised(method, <<"Failed to parse translation response">>))
                    /\ UNCHANGED translation
               ELSE IF Len(reply.texts) # Len(segments[1])
               THEN /\ EndMethod(Raised(method, <<"Translation count mismatch">>))
                    /\ UNCHANGED translation
               ELSE /\ translation' = Some(TranslationSegments(segments[1], reply.texts))
                    /\ EndMethod(Returned(method))
       ELSE /\ EndMethod(Raised(method, HelperError))
            /\ UNCHANGED translation
    /\ UNCHANGED <<jobvars, utilvars, attempt, func_calls, sleeps, errors, last_error, helper,
                   segments, acc, synthesized>>

\* synthesize_segments is called: an empty list is returned as it is,
\* otherwise synthesize_speech calls the provider for the first segment.
SynthesizeSegments ==
    /\ ai_pc = "idle" /\ translation # None /\ synthesized = None
    /\ IF translation[1] = <<>>
       THEN /\ synthesized' = Some(<<>>)
            /\ ai_result' = Returned("synthesize_segments")
            /\ UNCHANGED <<ai_pc, method, attempt, func_calls, sleeps, errors,
                           last_error, helper, acc>>
       ELSE /\ method' = "synthesize_segments"
            /\ acc' = <<>>
            /\ ai_result' = NoAIResult
            /\ EnterHelper
            /\ UNCHANGED synthesized
    /\ UNCHANGED <<jobvars, utilvars, segments, translation>>

\* synthesize_speech after the helper, and the loop of synthesize_segments:
\* the audio is saved and measured and the segment appended, then the next
\* segment is synthesized or the list returned; an error of the helper or
\* of get_audio_duration ends the method.
SynthesizeSpeechEnds ==
    /\ ai_pc = "after" /\ method = "synthesize_segments"
    /\ IF helper.kind = "returned"
       THEN \/ LET seg == translation[1][Len(acc) + 1]
                   out == Append(acc, SynthesizedSegment(seg, 2))
               IN /\ acc' = out
                  /\ IF Len(out) = Len(translation[1])
                     THEN /\ synthesized' = Some(out)
                          /\ EndMethod(Returned(method))
                          /\ UNCHANGED <<attempt, func_calls, sleeps, errors,
                                         last_error, helper>>
                     ELSE /\ EnterHelper
                          /\ UNCHANGED <<method, synthesized, ai_result>>
            \/ /\ EndMethod(Raised(method, <<"FFprobe failed">>))
               /\ UNCHANGED <<attempt, func_calls, sleeps, errors, last_error,
                              helper, acc, synthesized>>
       ELSE /\ EndMethod(Raised(method, HelperError))
            /\ UNCHANGED <<attempt, func_calls, sleeps, errors, last_error, helper,
                           acc, synthesized>>
    /\ UNCHANGED <<jobvars, utilvars, segments, translation>>

\* The AI client on its own: a transcription, its translation, its synthesis.
AINext ==
    \/ TranscribeAudio \/ AttemptReturns \/ AttemptFails
    \/ TranscribeAudioEnds
    \/ TranslateSegments \/ TranslateSegmentsEnds
    \/ SynthesizeSegments \/ SynthesizeSpeechEnds

\* ---------------------------------------------------- the media toolchain
\* The operations that write an output file, and those that read a value.
TransformOps == {"extract_audio", "mux_audio_video",
                 "concatenate_audio_files", "convert_audio_format"}
ProbeOps == {"get_video_duration", "get_video_metadata", "get_audio_duration"}
FFOps == TransformOps \cup ProbeOps

\* The input files of a call, each present or missing, in the order the
\* operation checks them: the list given to concatenate_audio_files, the
\* video and the audio of mux_audio_video, the one input of the others.
InputLists(op) ==
    IF op = "concatenate_audio_files" THEN SeqsUpTo(BOOLEAN, MaxFiles)
    ELSE IF op = "mux_audio_video" THEN [1..2 -> BOOLEAN]
    ELSE [1..1 -> BOOLEAN]

\* The path of the i-th input and the text of its not-found message.
InputPath(op, i) ==
    IF op \in {"extract_audio", "get_video_duration", "get_video_metadata"}
       \/ (op = "mux_audio_video" /\ i = 1)
    THEN "video.mp4" ELSE "audio.mp3"
NotFoundText(op, i) ==
    IF InputPath(op, i) = "video.mp4"
    THEN "Video file not found: " ELSE "Audio file not found: "

NoError == [exc |-> "", msg |-> <<>>]
FFError(e, m) == [exc |-> e, msg |-> m]

\* The checks an operation makes before it builds the command line.
Precondition(op, ins) ==
    IF op = "concatenate_audio_files" /\ ins = <<>>
    THEN FFError("ValueError", <<"No audio files provided for concatenation">>)
    ELSE IF \E i \in DOMAIN ins : ~ins[i]
    THEN LET i == CHOOSE k \in DOMAIN ins :
                      ~ins[k] /\ \A l \in 1..(k - 1) : ins[l]
         IN FFError("FileNotFoundError",
                    <<NotFoundText(op, i), InputPath(op, i)>>)
    ELSE NoError

\* The tool an operation runs and the description it passes for its k-th
\* invocation.
Tool(op) == IF op \in TransformOps THEN "FFmpeg" ELSE "FFprobe"
ToolDescription(op, k) ==
    CASE op = "extract_audio" -> "Extract audio from video.mp4"
      [] op = "mux_audio_video" -> "Mux audio into video.mp4"
      [] op = "concatenate_audio_files" -> "Concatenate audio files"
      [] op = "convert_audio_format" -> "Convert audio.mp3 to .wav"
      [] op = "get_video_duration" -> "Get duration of video.mp4"
      [] op = "get_audio_duration" -> "Get duration of audio.mp3"
      [] op = "get_video_metadata" /\ k = 1 -> "Get metadata of video.mp4"
      [] OTHER -> "Get audio codec of video.mp4"

\* What subprocess.run can do: the tool exits (with its code, stderr and
\* stdout, having written the output file or not), the timeout expires, or
\* the executable is not found.
Stdouts == {"json", "no duration", "not json"}
ToolOutcomes ==
    [kind : {"exit"}, code : {0, 1}, stderr : {"Invalid data found"},
     stdout : Stdouts, out : BOOLEAN]
    \cup [kind : {"timeout", "not installed"}, code : {-1}, stderr : {""},
          stdout : {""}, out : BOOLEAN]
NoProc == [kind |-> "", code |-> -1, stderr |-> "", stdout |-> "", out |-> FALSE]

\* The message of a timeout; messages are kept as the pieces they are
\* formatted from.
TimedOutMsg(tool, d) == <<tool, " operation ", "timed out", ": ", d>>
Contains(msg, piece) == \E i \in DOMAIN msg : msg[i] = piece

\* _run_ffmpeg / _run_ffprobe: what the outcome of subprocess.run becomes.
RunError(tool, d, o) ==
    CASE o.kind = "timeout" -> FFError("FFmpegError", TimedOutMsg(tool, d))
      [] o.kind = "not installed" ->
            FFError("FFmpegError", <<tool, " is not installed or not in PATH">>)
      [] o.kind = "exit" /\ o.code # 0 ->
            FFError("FFmpegError", <<tool, " failed: ", o.stderr>>)
      [] OTHER -> NoError

\* The text of the failure of the output check.
OutputFailure(op) ==
    CASE op = "extract_audio" -> "Audio extraction failed: "
      [] op = "mux_audio_video" -> "Audio muxing failed: "
      [] op = "concatenate_audio_files" -> "Audio concatenation failed: "
      [] OTHER -> "Audio conversion failed: "

\* The text of a parse failure.
ParseFailure(op) ==
    CASE op = "get_video_duration" -> "Failed to parse video duration: "
      [] op = "get_audio_duration" -> "Failed to parse audio duration: "
      [] OTHER -> "Failed to parse video metadata: "

NoFFResult == [kind |-> "", exc |-> "", msg |-> <<>>, value |-> ""]
FFReturned(v) == [kind |-> "returned", exc |-> "", msg |-> <<>>, value |-> v]
FFRaised(e) == [kind |-> "raised", exc |-> e.exc, msg |-> e.msg, value |-> ""]

FFInit ==
    /\ ff_pc = "idle"
    /\ ff_op = ""
    /\ ff_inputs = <<>>
    /\ ff_spawned = <<>>
    /\ ff_proc = NoProc
    /\ ff_listfile = FALSE
    /\ ff_result = NoFFResult

\* A variant of FFCall that builds the command line without looking at the
\* inputs.
FFCallUnchecked(op, ins) ==
    /\ ff_pc = "idle"
    /\ ff_op' = op
    /\ ff_inputs' = ins
    /\ ff_pc' = "spawn"
    /\ ff_listfile' = (op = "concatenate_audio_files")
    /\ UNCHANGED <<jobvars, aivars, srtvars, s3vars, ff_spawned, ff_proc, ff_result>>

\* The head of an operation: its precondition checks, and for
\* concatenate_audio_files the writing of concat_list.txt.
FFCall(op, ins) ==
    /\ ff_pc = "idle"
    /\ ff_op' = op
    /\ ff_inputs' = ins
    /\ LET e == Precondition(op, ins)
       IN IF e # NoError
          THEN /\ ff_result' = FFRaised(e)
               /\ ff_pc' = "done"
               /\ UNCHANGED ff_listfile
          ELSE /\ ff_pc' = "spawn"
               /\ ff_listfile' = (op = "concatenate_audio_files")
               /\ UNCHANGED ff_result
    /\ UNCHANGED <<jobvars, aivars, srtvars, s3vars, ff_spawned, ff_proc>>

\* The invocation record of the next subprocess.run of the call.
Invocation ==
    [tool |-> Tool(ff_op),
     description |-> ToolDescription(ff_op, Len(ff_spawned) + 1)]

\* What follows subprocess.run: the error of _run_ffmpeg / _run_ffprobe
\* leaves the operation (through the finally clause of
\* concatenate_audio_files), a zero exit goes on to the output check or to
\* the parsing of stdout.
AfterRun(o) ==
    /\ ff_proc' = o
    /\ LET e == RunError(Tool(ff_op), Invocation.description, o)
       IN IF e # NoError
          THEN /\ ff_result' = FFRaised(e)
               /\ ff_pc' = "done"
               /\ ff_listfile' = FALSE
          ELSE /\ ff_pc' = IF ff_op \in TransformOps THEN "output" ELSE "parse"
               /\ UNCHANGED <<ff_result, ff_listfile>>
    /\ UNCHANGED <<jobvars, aivars, srtvars, s3vars, ff_op, ff_inputs>>

\* A variant of RunTool that invokes the tool again when it timed out.
RunToolRetriesTimeout(o) ==
    /\ ff_pc = "spawn"
    /\ ff_spawned' = IF o.kind = "timeout"
                     THEN ff_spawned \o <<Invocation, Invocation>>
                     ELSE Append(ff_spawned, Invocation)
    /\ AfterRun(o)

\* _run_ffmpeg / _run_ffprobe: one subprocess.run with a timeout.
RunTool(o) ==
    /\ ff_pc = "spawn"
    /\ ff_spawned' = Append(ff_spawned, Invocation)
    /\ AfterRun(o)

\* A variant of CheckOutput that trusts the exit code.
CheckOutputTrustsExit ==
    /\ ff_pc = "output"
    /\ ff_result' = FFReturned("output path")
    /\ ff_pc' = "done"
    /\ ff_listfile' = FALSE
    /\ UNCHANGED <<jobvars, aivars, srtvars, s3vars, ff_op, ff_inputs, ff_spawned, ff_proc>>

\* The end of a transform operation: output_path.exists(), and the finally
\* clause of concatenate_audio_files.
CheckOutput ==
    /\ ff_pc = "output"
    /\ ff_result' = IF ff_proc.out
                    THEN FFReturned("output path")
                    ELSE FFRaised(FFError("FFmpegError",
                             <<OutputFailure(ff_op), "output file not created">>))
    /\ ff_pc' = "done"
    /\ ff_listfile' = FALSE
    /\ UNCHANGED <<jobvars, aivars, srtvars, s3vars, ff_op, ff_inputs, ff_spawned, ff_proc>>

\* The end of a probe operation: json.loads and the reading of the duration;
\* get_video_metadata goes on to its second invocation, which does not need
\* a duration.
ParseOutput ==
    /\ ff_pc = "parse"
    /\ LET second == ff_op = "get_video_metadata" /\ Len(ff_spawned) = 2
           needs == ff_op # "get_video_metadata"
           bad == \/ ff_proc.stdout = "not json"
                  \/ needs /\ ff_proc.stdout = "no duration"
       IN IF bad
          THEN /\ ff_result' = FFRaised(FFError("FFmpegError",
                                  <<ParseFailure(ff_op), ff_proc.stdout>>))
               /\ ff_pc' = "done"
          ELSE IF ff_op = "get_video_metadata" /\ ~second
          THEN /\ ff_pc' = "spawn"
               /\ UNCHANGED ff_result
          ELSE /\ ff_result' = FFReturned(IF needs THEN "duration" ELSE "metadata")
               /\ ff_pc' = "done"
    /\ UNCHANGED <<jobvars, aivars, srtvars, s3vars, ff_op, ff_inputs, ff_spawned, ff_proc, ff_listfile>>

\* The caller has the result; the adapter is ready for the next call.
FFReturn ==
    /\ ff_pc = "done"
    /\ ff_pc' = "idle"
    /\ ff_op' = ""
    /\ ff_inputs' = <<>>
    /\ ff_spawned' = <<>>
    /\ ff_proc' = NoProc
    /\ ff_listfile' = FALSE
    /\ ff_result' = NoFFResult
    /\ UNCHANGED <<jobvars, aivars, srtvars, s3vars>>

FFNext ==
    \/ \E op \in FFOps : \E ins \in InputLists(op) : FFCall(op, ins)
    \/ \E o \in ToolOutcomes : RunTool(o)
    \/ CheckOutput
    \/ ParseOutput
    \/ FFReturn

\* ------------------------------------------------------ the subtitle codec
\* A string is the sequence of its pieces: a newline, a blank, " --> ", a
\* run of digits, a timestamp HH:MM:SS,mmm (its fields; three fields when
\* the millisecond component is missing), or a word.
NL == [t |-> "nl", n |-> 0, w |-> "", f |-> <<>>]
Sp == [t |-> "space", n |-> 0, w |-> "", f |-> <<>>]
Arrow == [t |-> "arrow", n |-> 0, w |-> "", f |-> <<>>]
Num(k) == [t |-> "digits", n |-> k, w |-> "", f |-> <<>>]
Word(x) == [t |-> "word", n |-> 0, w |-> x, f |-> <<>>]
Stamp(fields) == [t |-> "stamp", n |-> 0, w |-> "", f |-> fields]

\* str.strip()
IsSpace(c) == c.t \in {"nl", "space"}
RECURSIVE LStrip(_)
LStrip(str) ==
    IF str # <<>> /\ IsSpace(str[1]) THEN LStrip(Tail(str)) ELSE str
RECURSIVE RStrip(_)
RStrip(str) ==
    IF str # <<>> /\ IsSpace(str[Len(str)])
    THEN RStrip(SubSeq(str, 1, Len(str) - 1)) ELSE str
Strip(str) == RStrip(LStrip(str))

\* str.split(sep): the parts between the occurrences of sep, from the left.
StartsWith(str, prefix) ==
    Len(str) >= Len(prefix) /\ SubSeq(str, 1, Len(prefix)) = prefix
RECURSIVE SplitFrom(_, _, _)
SplitFrom(str, sep, part) ==
    IF str = <<>> THEN <<part>>
    ELSE IF StartsWith(str, sep)
    THEN <<part>> \o SplitFrom(SubSeq(str, Len(sep) + 1, Len(str)), sep, <<>>)
    ELSE SplitFrom(Tail(str), sep, Append(part, str[1]))
Split(str, sep) == SplitFrom(str, sep, <<>>)

\* sep.join(parts)
RECURSIVE Join(_, _)
Join(parts, sep) ==
    IF parts = <<>> THEN <<>>
    ELSE IF Len(parts) = 1 THEN parts[1]
    ELSE parts[1] \o sep \o Join(Tail(parts), sep)

\* int(str): None stands for ValueError.
IntOf(str) ==
    IF Len(str) = 1 /\ str[1].t = "digits" THEN Some(str[1].n) ELSE None

\* A time in seconds is kept as a whole number of ticks, TicksPerMs to the
\* millisecond.  The double nearest to a decimal number of milliseconds can
\* lie below it, and then belongs to the tick before: of the decimal times
\* used here (0, 1, 1.001, 1.5, 2, 5, 10, 15, 65.123, 3661.123, 3661.999 and
\* 7200 seconds) that is so for 1.001 and 3661.999.
FloatBelow == {1001, 3661999}
Float(ms) == ms * TicksPerMs - (IF ms \in FloatBelow THEN 1 ELSE 0)
TicksPerSecond == 1000 * TicksPerMs

\* A variant of format_srt_time that rounds to the nearest millisecond.
format_srt_time_rounds(seconds) ==
    LET secs == IF seconds < 0 THEN 0 ELSE seconds
        ms == (2 * secs + TicksPerMs) \div (2 * TicksPerMs)
    IN <<Stamp(<<ms \div 3600000, (ms % 3600000) \div 60000,
                 (ms % 60000) \div 1000, ms % 1000>>)>>

\* format_srt_time
format_srt_time(seconds) ==
    LET secs == IF seconds < 0 THEN 0 ELSE seconds
        hours == secs \div (3600 * TicksPerSecond)
        minutes == (secs % (3600 * TicksPerSecond)) \div (60 * TicksPerSecond)
        whole == (secs % (60 * TicksPerSecond)) \div TicksPerSecond
        millis == (secs % TicksPerSecond) \div TicksPerMs
    IN <<Stamp(<<hours, minutes, whole, millis>>)>>

\* parse_srt_time: None stands for ValueError.
parse_srt_time(timestamp) ==
    IF Len(timestamp) = 1 /\ timestamp[1].t = "stamp" /\ Len(timestamp[1].f) = 4
    THEN LET f == timestamp[1].f
         IN Some(Float(f[1] * 3600000 + f[2] * 60000 + f[3] * 1000 + f[4]))
    ELSE None

\* A TranscriptionSegment, and the dict parse_srt builds (the same fields).
Segment(i, a, b, txt) == [id |-> i, start |-> a, end |-> b, text |-> txt]

SrtReturned(v) == [kind |-> "returned", exc |-> "", value |-> v]
SrtRaised(e) == [kind |-> "raised", exc |-> e, value |-> <<>>]
NoSrtResult == [kind |-> "", exc |-> "", value |-> <<>>]

\* One entry of generate_srt.
SrtEntry(i, seg) ==
    <<Num(i), NL>> \o format_srt_time(seg.start) \o <<Arrow>>
        \o format_srt_time(seg.end) \o <<NL>> \o Strip(seg.text) \o <<NL>>

\* The loop of generate_srt from segment i on: the result, and the list with
\* the swaps the loop made in it.
RECURSIVE GenerateLoop(_, _, _)
GenerateLoop(segs, i, srt_lines) ==
    IF i > Len(segs)
    THEN [result |-> SrtReturned(Join(srt_lines, <<NL>>)), segs |-> segs]
    ELSE IF segs[i].start < 0 \/ segs[i].end < 0
    THEN [result |-> SrtRaised("SubtitleError"), segs |-> segs]
    ELSE LET seg == IF segs[i].end < segs[i].start
                    THEN [segs[i] EXCEPT !.start = segs[i].end,
                                         !.end = segs[i].start]
                    ELSE segs[i]
             swapped == [segs EXCEPT ![i] = seg]
         IN IF Strip(seg.text) = <<>>
            THEN GenerateLoop(swapped, i + 1, srt_lines)
            ELSE GenerateLoop(swapped, i + 1, Append(srt_lines, SrtEntry(i, seg)))

\* generate_srt for a list of TranscriptionSegment
generate_srt_run(segs) ==
    IF segs = <<>>
    THEN [result |-> SrtReturned(<<>>), segs |-> segs]
    ELSE GenerateLoop(segs, 1, <<>>)
generate_srt(segs) == generate_srt_run(segs).result

\* `" --> " in timestamp_line`
HasArrow(str) == \E k \in DOMAIN str : str[k] = Arrow

\* The two timestamps of a line: None when split or parse_srt_time raises
\* ValueError.
TimesOf(timestamp_line) ==
    LET parts == Split(timestamp_line, <<Arrow>>)
        a == IF Len(parts) = 2 THEN parse_srt_time(Strip(parts[1])) ELSE None
        b == IF Len(parts) = 2 THEN parse_srt_time(Strip(parts[2])) ELSE None
    IN IF a = None \/ b = None THEN None ELSE Some(<<a[1], b[1]>>)

\* The text of a block: its lines from the third on.
TextOf(lines) == Strip(Join(SubSeq(lines, 3, Len(lines)), <<NL>>))

\* The body of the loop of parse_srt for one block: a segment, a skipped
\* block, or SubtitleError, which the except clause does not catch.
ParseBlock(block) ==
    LET lines == Split(Strip(block), <<NL>>)
        skip == [kind |-> "skip", seg |-> Segment(0, 0, 0, <<>>)]
    IN IF Strip(block) = <<>> THEN skip
       ELSE IF Len(lines) < 3 THEN skip
       ELSE LET seg_id == IntOf(Strip(lines[1]))
                timestamp_line == Strip(lines[2])
                times == TimesOf(timestamp_line)
            IN IF seg_id = None THEN skip
               ELSE IF ~HasArrow(timestamp_line)
               THEN [kind |-> "raise", seg |-> Segment(0, 0, 0, <<>>)]
               ELSE IF times = None THEN skip
               ELSE [kind |-> "segment",
                     seg |-> Segment(seg_id[1], times[1][1], times[1][2],
                                     TextOf(lines))]

RECURSIVE ParseLoop(_, _, _)
ParseLoop(blocks, i, segs) ==
    IF i > Len(blocks) THEN SrtReturned(segs)
    ELSE LET b == ParseBlock(blocks[i])
         IN IF b.kind = "raise" THEN SrtRaised("SubtitleError")
            ELSE IF b.kind = "skip" THEN ParseLoop(blocks, i + 1, segs)
            ELSE ParseLoop(blocks, i + 1, Append(segs, b.seg))

\* parse_srt
parse_srt(srt_text) ==
    ParseLoop(Split(Strip(srt_text), <<NL, NL>>), 1, <<>>)

\* A variant of Overlaps that also reports blocks that touch.
OverlapsOrTouches(start, prev_end) == start <= prev_end

\* validate_srt: the overlap test
Overlaps(start, prev_end) == start < prev_end

\* A violation in the list of validate_srt: the block and what is wrong.
Violation(i, what) == [block |-> i, what |-> what]

\* The loop of validate_srt from block i on.
RECURSIVE ValidateLoop(_, _, _, _)
ValidateLoop(blocks, i, prev_end, found) ==
    IF i > Len(blocks) THEN found
    ELSE LET lines == Split(Strip(blocks[i]), <<NL>>)
         IN IF Strip(blocks[i]) = <<>>
            THEN ValidateLoop(blocks, i + 1, prev_end, found)
            ELSE IF Len(lines) < 3
            THEN ValidateLoop(blocks, i + 1, prev_end,
                              Append(found, Violation(i, "Insufficient lines")))
            ELSE LET seg_id == IntOf(Strip(lines[1]))
                     timestamp_line == Strip(lines[2])
                     times == TimesOf(timestamp_line)
                     id_errors ==
                        IF seg_id = None
                        THEN <<Violation(i, "Invalid segment ID")>>
                        ELSE IF seg_id[1] # i
                        THEN <<Violation(i, "Segment ID mismatch")>>
                        ELSE <<>>
                     time_errors ==
                        IF times = None
                        THEN <<Violation(i, "Invalid timestamp format")>>
                        ELSE (IF times[1][2] <= times[1][1]
                              THEN <<Violation(i, "End time <= start time")>>
                              ELSE <<>>)
                             \o (IF Overlaps(times[1][1], prev_end)
                                 THEN <<Violation(i, "Overlapping with previous segment")>>
                                 ELSE <<>>)
                     text_errors ==
                        IF TextOf(lines) = <<>>
                        THEN <<Violation(i, "Empty text content")>>
                        ELSE <<>>
                 IN IF ~HasArrow(timestamp_line)
                    THEN ValidateLoop(blocks, i + 1, prev_end,
                            found \o id_errors
                                \o <<Violation(i, "Missing ' --> ' in timestamp")>>)
                    ELSE ValidateLoop(blocks, i + 1,
                            IF times = None THEN prev_end ELSE times[1][2],
                            found \o id_errors \o time_errors \o text_errors)

\* A variant of validate_srt that returns at the first problem.
validate_srt_first_problem(srt_text) ==
    IF Strip(srt_text) = <<>>
    THEN [valid |-> FALSE, errors |-> <<Violation(0, "Empty SRT content")>>]
    ELSE LET found == ValidateLoop(Split(Strip(srt_text), <<NL, NL>>), 1, 0, <<>>)
         IN [valid |-> found = <<>>,
             errors |-> IF found = <<>> THEN found ELSE <<found[1]>>]

\* validate_srt
validate_srt(srt_text) ==
    IF Strip(srt_text) = <<>>
    THEN [valid |-> FALSE, errors |-> <<Violation(0, "Empty SRT content")>>]
    ELSE LET found == ValidateLoop(Split(Strip(srt_text), <<NL, NL>>), 1, 0, <<>>)
         IN [valid |-> found = <<>>, errors |-> found]

\* TranscriptionSegment.from_dict for each dict of parse_srt
FromDicts(dicts) == [k \in DOMAIN dicts |-> dicts[k]]

\* The segment lists the codec is followed with.  Times: the doubles 0.0,
\* 1.001, 2.0 and 3.0, a time between two milliseconds (1001 ms and a tick),
\* an end before its start, a negative start, a segment that starts where
\* another ends.  Texts: plain, with blanks around it, empty, of two lines.
SegmentSpans ==
    {<<Float(0), Float(2000)>>, <<Float(1001), Float(2000)>>,
     <<Float(1001) + 2, Float(2000)>>, <<Float(2000), Float(1001)>>,
     <<0 - TicksPerSecond, Float(2000)>>, <<Float(2000), Float(3000)>>}
SegmentTexts ==
    {<<Word("hello")>>, <<Sp, Word("hello"), Sp>>, <<>>,
     <<Word("hello"), NL, Word("world")>>}
SegmentLists ==
    {[k \in DOMAIN q |-> Segment(k, q[k][1][1], q[k][1][2], q[k][2])] :
        q \in SeqsUpTo(SegmentSpans \X SegmentTexts, MaxBlocks)}

\* The blocks the SRT texts given to parse_srt and validate_srt are written
\* from: well formed ("ok", with one or two lines of text), without text
\* ("short"), with a word for its number ("badnum"), without " --> "
\* ("noarrow"), with a start that lacks its milliseconds ("badstamp").
\* Times in milliseconds.
BlockSpans == {<<0, 10000>>, <<5000, 15000>>, <<10000, 15000>>, <<10000, 5000>>}
BlockKinds == {"short", "badnum", "noarrow", "badstamp"}
Blocks ==
    [kind : {"ok"}, num : 1..2, span : BlockSpans, rows : {1}]
    \cup [kind : {"ok"}, num : {1}, span : {<<0, 10000>>}, rows : {2}]
    \cup [kind : BlockKinds, num : 1..2, span : {<<10000, 5000>>}, rows : {1}]

\* HH:MM:SS,mmm for a number of milliseconds, as a file holds it.
StampOf(ms) ==
    Stamp(<<ms \div 3600000, (ms % 3600000) \div 60000,
            (ms % 60000) \div 1000, ms % 1000>>)

\* The text of a block.
Written(b) ==
    (IF b.kind = "badnum" THEN <<Word("x")>> ELSE <<Num(b.num)>>)
    \o <<NL>>
    \o (CASE b.kind = "noarrow" -> <<Word("later")>>
          [] b.kind = "badstamp" ->
                <<Stamp(<<0, 0, 10>>), Arrow, StampOf(b.span[2])>>
          [] OTHER -> <<StampOf(b.span[1]), Arrow, StampOf(b.span[2])>>)
    \o (IF b.kind = "short" THEN <<>>
        ELSE IF b.rows = 2 THEN <<NL, Word("hello"), NL, Word("world")>>
        ELSE <<NL, Word("hello")>>)

\* The SRT text of a sequence of blocks: a blank line between them.
WrittenAll(bs) == Join([k \in DOMAIN bs |-> Written(bs[k])], <<NL, NL>>)

\* The times format_srt_time is followed with: the doubles 0.0, 1.001, 1.5,
\* 65.123, 3661.123, 3661.999 and 7200.0, times between two milliseconds,
\* and a negative time.
FormatTimes ==
    {Float(0), 1, TicksPerMs - 1, Float(1001), Float(1001) + 2, Float(1500),
     Float(65123), Float(3661123), Float(3661999), Float(7200000),
     60 * TicksPerSecond - 1, 0 - TicksPerSecond}

SRTInit ==
    /\ srt_pc = "idle"
    /\ srt_given = <<>>
    /\ srt_segments = <<>>
    /\ srt_encoded = NoSrtResult
    /\ srt_blocks = <<>>
    /\ srt_content = <<>>
    /\ srt_parsed = NoSrtResult
    /\ srt_reencoded = NoSrtResult
    /\ srt_valid = [valid |-> FALSE, errors |-> <<>>]
    /\ srt_time = 0
    /\ srt_stamp = <<>>
    /\ srt_back = None

\* generate_srt(segments)
GenerateSrt ==
    /\ srt_pc = "idle"
    /\ \E segs \in SegmentLists :
        /\ srt_given' = segs
        /\ srt_segments' = generate_srt_run(segs).segs
        /\ srt_encoded' = generate_srt(segs)
    /\ srt_pc' = "encoded"
    /\ UNCHANGED <<jobvars, aivars, ffvars, s3vars, srt_blocks, srt_content, srt_parsed,
                   srt_reencoded, srt_valid, srt_time, srt_stamp, srt_back>>

\* parse_srt of the text generate_srt returned
ParseEncoded ==
    /\ srt_pc = "encoded"
    /\ srt_encoded.kind = "returned"
    /\ srt_content' = srt_encoded.value
    /\ srt_parsed' = parse_srt(srt_encoded.value)
    /\ srt_pc' = "decoded"
    /\ UNCHANGED <<jobvars, aivars, ffvars, s3vars, srt_given, srt_segments, srt_encoded,
                   srt_blocks, srt_reencoded, srt_valid, srt_time, srt_stamp,
                   srt_back>>

\* generate_srt of the segments parse_srt returned
Regenerate ==
    /\ srt_pc = "decoded"
    /\ srt_parsed.kind = "returned"
    /\ srt_reencoded' = generate_srt(FromDicts(srt_parsed.value))
    /\ srt_pc' = "reencoded"
    /\ UNCHANGED <<jobvars, aivars, ffvars, s3vars, srt_given, srt_segments, srt_encoded,
                   srt_blocks, srt_content, srt_parsed, srt_valid, srt_time,
                   srt_stamp, srt_back>>

\* validate_srt of the text generate_srt returned
ValidateEncoded ==
    /\ srt_pc = "encoded"
    /\ srt_encoded.kind = "returned"
    /\ srt_content' = srt_encoded.value
    /\ srt_valid' = validate_srt(srt_encoded.value)
    /\ srt_pc' = "validated"
    /\ UNCHANGED <<jobvars, aivars, ffvars, s3vars, srt_given, srt_segments, srt_encoded,
                   srt_blocks, srt_parsed, srt_reencoded, srt_time, srt_stamp,
                   srt_back>>

\* An SRT text arrives (load_srt has read a file).
ReadContent ==
    /\ srt_pc = "idle"
    /\ \E bs \in SeqsUpTo(Blocks, MaxBlocks) :
        /\ srt_blocks' = bs
        /\ srt_content' = WrittenAll(bs)
    /\ srt_pc' = "read"
    /\ UNCHANGED <<jobvars, aivars, ffvars, s3vars, srt_given, srt_segments, srt_encoded,
                   srt_parsed, srt_reencoded, srt_valid, srt_time, srt_stamp,
                   srt_back>>

\* parse_srt(srt_content)
ParseSrt ==
    /\ srt_pc = "read"
    /\ srt_parsed' = parse_srt(srt_content)
    /\ srt_pc' = "parsed"
    /\ UNCHANGED <<jobvars, aivars, ffvars, s3vars, srt_given, srt_segments, srt_encoded,
                   srt_blocks, srt_content, srt_reencoded, srt_valid, srt_time,
                   srt_stamp, srt_back>>

\* validate_srt(srt_content)
ValidateSrt ==
    /\ srt_pc = "parsed"
    /\ srt_valid' = validate_srt(srt_content)
    /\ srt_pc' = "validated"
    /\ UNCHANGED <<jobvars, aivars, ffvars, s3vars, srt_given, srt_segments, srt_encoded,
                   srt_blocks, srt_content, srt_parsed, srt_reencoded, srt_time,
                   srt_stamp, srt_back>>

\* format_srt_time(seconds)
FormatSrtTime ==
    /\ srt_pc = "idle"
    /\ \E seconds \in FormatTimes :
        /\ srt_time' = seconds
        /\ srt_stamp' = format_srt_time(seconds)
    /\ srt_pc' = "formatted"
    /\ UNCHANGED <<jobvars, aivars, ffvars, s3vars, srt_given, srt_segments, srt_encoded,
                   srt_blocks, srt_content, srt_parsed, srt_reencoded, srt_valid,
                   srt_back>>

\* parse_srt_time of the timestamp format_srt_time returned
ParseSrtTime ==
    /\ srt_pc = "formatted"
    /\ srt_back' = parse_srt_time(srt_stamp)
    /\ srt_pc' = "timed"
    /\ UNCHANGED <<jobvars, aivars, ffvars, s3vars, srt_given, srt_segments, srt_encoded,
                   srt_blocks, srt_content, srt_parsed, srt_reencoded, srt_valid,
                   srt_time, srt_stamp>>

SRTNext ==
    \/ GenerateSrt
    \/ ParseEncoded
    \/ Regenerate
    \/ ValidateEncoded
    \/ ReadContent
    \/ ParseSrt
    \/ ValidateSrt
    \/ FormatSrtTime
    \/ ParseSrtTime

\* --------------------------------------------------------- the Blob Store
\* The default of the max_retries parameter.
DEFAULT_MAX_RETRIES == 3
S3Ops == {"upload_file_with_retry", "download_file_with_retry"}
\* The error codes of the ClientError the S3 client raises.
ClientErrors == {"ServiceUnavailable", "SlowDown"}
\* What one transfer does: it returns, raises ClientError with a code, or
\* raises an exception of another class.
TransferOutcomes ==
    {[kind |-> "ok", exc |-> "", code |-> ""]}
    \cup {[kind |-> "error", exc |-> "ClientError", code |-> c] : c \in ClientErrors}
    \cup {[kind |-> "error", exc |-> "OSError", code |-> ""]}

\* 2 ** attempt
RECURSIVE Pow2(_)
Pow2(k) == IF k = 0 THEN 1 ELSE 2 * Pow2(k - 1)

NoS3Result == [kind |-> "", exc |-> "", code |-> "", value |-> ""]
\* The method returns s3_key (upload) or local_path (download).
S3Returned(op) ==
    [kind |-> "returned", exc |-> "", code |-> "",
     value |-> IF op = "upload_file_with_retry" THEN "s3_key" ELSE "local_path"]
S3Raised(o) == [kind |-> "raised", exc |-> o.exc, code |-> o.code, value |-> ""]

\* Before S3Service is constructed.
S3Init ==
    /\ s3_pc = "none" /\ is_dev = FALSE /\ s3_op = "" /\ max_retries = 0
    /\ s3_attempt = 0 /\ s3_tries = 0 /\ s3_sleeps = <<>> /\ s3_errors = <<>>
    /\ s3_result = NoS3Result

\* S3Service.__init__: is_dev is read from settings.USE_LOCAL_STORAGE.
S3ServiceInit ==
    /\ s3_pc = "none"
    /\ \E dev \in BOOLEAN : is_dev' = dev
    /\ s3_pc' = "idle"
    /\ UNCHANGED <<jobvars, aivars, ffvars, srtvars, s3_op, max_retries,
                   s3_attempt, s3_tries, s3_sleeps, s3_errors, s3_result>>

\* upload_file_with_retry / download_file_with_retry is called.
S3Call ==
    /\ s3_pc \in {"idle", "done"}
    /\ \E op \in S3Ops, m \in 0..DEFAULT_MAX_RETRIES :
          /\ s3_op' = op
          /\ max_retries' = m
    /\ s3_attempt' = 0 /\ s3_tries' = 0 /\ s3_sleeps' = <<>> /\ s3_errors' = <<>>
    /\ s3_result' = NoS3Result
    /\ s3_pc' = "try"
    /\ UNCHANGED <<jobvars, aivars, ffvars, srtvars, is_dev>>

\* The is_dev branch: upload_file / download_file once, a copy in the local
\* storage directory, whose result or exception is the method's.
S3LocalCopy ==
    /\ s3_pc = "try" /\ is_dev
    /\ s3_tries' = s3_tries + 1
    /\ \E o \in {t \in TransferOutcomes : t.exc # "ClientError"} :
          s3_result' = IF o.kind = "ok" THEN S3Returned(s3_op) ELSE S3Raised(o)
    /\ s3_pc' = "done"
    /\ UNCHANGED <<jobvars, aivars, ffvars, srtvars, is_dev, s3_op, max_retries,
                   s3_attempt, s3_sleeps, s3_errors>>

\* A variant of S3AfterTransfer that waits attempt + 1 seconds (1s, 2s, 3s).
S3AfterTransferLinear(o) ==
    IF o.kind = "ok"
    THEN /\ s3_result' = S3Returned(s3_op)
         /\ s3_pc' = "done"
         /\ UNCHANGED <<s3_attempt, s3_sleeps, s3_errors>>
    ELSE IF o.exc # "ClientError"
    THEN /\ s3_result' = S3Raised(o)
         /\ s3_pc' = "done"
         /\ UNCHANGED <<s3_attempt, s3_sleeps, s3_errors>>
    ELSE /\ s3_errors' = Append(s3_errors, o.code)
         /\ IF s3_attempt = max_retries
            THEN /\ s3_result' = S3Raised(o)
                 /\ s3_pc' = "done"
                 /\ UNCHANGED <<s3_attempt, s3_sleeps>>
            ELSE /\ s3_sleeps' = Append(s3_sleeps, s3_attempt + 1)
                 /\ s3_attempt' = s3_attempt + 1
                 /\ UNCHANGED <<s3_pc, s3_result>>

\* One pass of `for attempt in range(max_retries + 1)` after the transfer
\* ended with o: return; or an exception that is no ClientError leaves the
\* method; or the ClientError is re-raised when attempt == max_retries, and
\* otherwise the method sleeps 2 ** attempt and goes on.
S3AfterTransfer(o) ==
    IF o.kind = "ok"
    THEN /\ s3_result' = S3Returned(s3_op)
         /\ s3_pc' = "done"
         /\ UNCHANGED <<s3_attempt, s3_sleeps, s3_errors>>
    ELSE IF o.exc # "ClientError"
    THEN /\ s3_result' = S3Raised(o)
         /\ s3_pc' = "done"
         /\ UNCHANGED <<s3_attempt, s3_sleeps, s3_errors>>
    ELSE /\ s3_errors' = Append(s3_errors, o.code)
         /\ IF s3_attempt = max_retries
            THEN /\ s3_result' = S3Raised(o)
                 /\ s3_pc' = "done"
                 /\ UNCHANGED <<s3_attempt, s3_sleeps>>
            ELSE /\ s3_sleeps' = Append(s3_sleeps, Pow2(s3_attempt))
                 /\ s3_attempt' = s3_attempt + 1
                 /\ UNCHANGED <<s3_pc, s3_result>>

\* s3_client.upload_file / s3_client.download_file inside the loop.
S3Transfer ==
    /\ s3_pc = "try" /\ ~is_dev
    /\ s3_tries' = s3_tries + 1
    /\ \E o \in TransferOutcomes : S3AfterTransfer(o)
    /\ UNCHANGED <<jobvars, aivars, ffvars, srtvars, is_dev, s3_op, max_retries>>

\* The Blob Store client on its own: constructed, then called for one
\* transfer after another.
S3Next == S3ServiceInit \/ S3Call \/ S3LocalCopy \/ S3Transfer

\* ------------------------------------------------------ the specification
\* After construction: an empty jobs table, the workers at the head of run().
Init ==
    /\ jobs = <<>>
    /\ clock = 0
    /\ enqueues = 0
    /\ running = [w \in Workers |-> TRUE]
    /\ pc = [w \in Workers |-> "loop"]
    /\ cur = [w \in Workers |-> 0]
    /\ ws = [w \in Workers |-> "none"]
    /\ local = [w \in Workers |-> NoLocal]
    /\ hist = [w \in Workers |-> <<>>]
    /\ result = [w \in Workers |-> NoResult]
    /\ AIInit
    /\ FFInit
    /\ SRTInit
    /\ S3Init

\* One running worker instance, and the API creating and enqueueing jobs.
Next ==
    \/ CreateJob
    \/ \E j \in JobIds : EnqueueJob(j)
    \/ \E w \in Solo : WorkerStep(w)

Spec == Init /\ [][Next]_vars

\* The AI client called for one transcription, translation and synthesis.
SpecAI == Init /\ [][AINext]_vars

\* The media toolchain adapter called for one operation after another.
SpecFF == Init /\ [][FFNext]_vars

\* The subtitle codec used once: on a segment list, on an SRT text, or on a
\* time.
SpecSRT == Init /\ [][SRTNext]_vars

\* The Blob Store client constructed and called for transfers with retry.
SpecS3 == Init /\ [][S3Next]_vars

\* The worker, the API, and a shutdown signal at any moment.
NextShutdown ==
    \/ Next
    \/ \E w \in Solo : Shutdown(w)

SpecShutdown == Init /\ [][NextShutdown]_vars

\* Two worker instances started on the same Job Store, in which the API
\* has created and enqueued one job.
InitTwo ==
    /\ jobs = enqueue_job(1 :> NewJob(1), 1)
    /\ clock = 1
    /\ enqueues = 1
    /\ running = [w \in Workers |-> TRUE]
    /\ pc = [w \in Workers |-> "loop"]
    /\ cur = [w \in Workers |-> 0]
    /\ ws = [w \in Workers |-> "none"]
    /\ local = [w \in Workers |-> NoLocal]
    /\ hist = [w \in Workers |-> <<>>]
    /\ result = [w \in Workers |-> NoResult]
    /\ AIInit
    /\ FFInit
    /\ SRTInit
    /\ S3Init

NextTwo == \E w \in Workers : WorkerStep(w)

SpecTwo == InitTwo /\ [][NextTwo]_vars

\* One running worker instance on a Job Store in which the API has created
\* and enqueued one job, and the API deleting jobs at any moment.
NextDelete ==
    \/ \E j \in JobIds : DeleteJob(j)
    \/ \E w \in Solo : WorkerStep(w)

SpecDelete == InitTwo /\ [][NextDelete]_vars


\* One running worker instance on a Job Store in which the API has created
\* and enqueued every job; the worker's loop keeps running.
InitQueue ==
    /\ jobs = [j \in JobIds |-> enqueue_job(j :> NewJob(j), j)[j]]
    /\ clock = NJobs
    /\ enqueues = NJobs
    /\ running = [w \in Workers |-> TRUE]
    /\ pc = [w \in Workers |-> "loop"]
    /\ cur = [w \in Workers |-> 0]
    /\ ws = [w \in Workers |-> "none"]
    /\ local = [w \in Workers |-> NoLocal]
    /\ hist = [w \in Workers |-> <<>>]
    /\ result = [w \in Workers |-> NoResult]
    /\ AIInit
    /\ FFInit
    /\ SRTInit
    /\ S3Init

NextQueue == \E w \in Solo : WorkerStep(w)

\* Worker.run is a running process: its next step is eventually taken.
SpecQueue == InitQueue /\ [][NextQueue]_vars /\ WF_vars(NextQueue)

\* ------------------------------------------------------ reading the runs
\* The run of worker w has ended: process_job returned or raised.
Exited(w) == pc[w] = "exited"
\* process_job raised after it entered its try block (the job was found).
RaisedInRun(w) == Exited(w) /\ result[w].kind = "raised" /\ ws[w] # "none"
\* The run invoked the external call.
Called(w, name) == \E i \in DOMAIN hist[w] : hist[w][i].op = name
\* The statuses the run wrote, in order.
IsStatusWrite(e) == e.st # ""
StatusWrites(w) == SelectSeq(hist[w], IsStatusWrite)
\* The progress values the run wrote, in order.
IsProgressWrite(e) == e.pr # -1
ProgressWrites(w) == SelectSeq(hist[w], IsProgressWrite)
\* The job's status as the caller finds it when process_job ends.
StatusAtExit(w) ==
    IF result[w].row = None THEN "" ELSE result[w].row[1].status

\* ------------------------------------------------------------- the claims

\* C1: whenever process_job raises after the job was found in the Job
\* Store, the job's status is failed when the exception reaches the caller.
C1_RaisedMeansFailed ==
    \A w \in Workers : RaisedInRun(w) => StatusAtExit(w) = "failed"

\* C2: a job whose probed duration exceeds MAX_VIDEO_DURATION goes to failed,
\* and transcription, translation and synthesis are not invoked in that run.
C2_TooLongFailsJob ==
    \A w \in Workers :
        (Exited(w) /\ local[w].duration # None
                   /\ local[w].duration[1] > MAX_VIDEO_DURATION)
        => /\ StatusAtExit(w) = "failed"
           /\ ~Called(w, "transcribe_audio")
           /\ ~Called(w, "translate_segments")
           /\ ~Called(w, "synthesize_segments")

\* C3: when transcription returns zero segments, process_job raises with
\* the no-speech message at once: translation, synthesis, the uploads and
\* complete_job are not invoked and the run never writes done.
C3_NoSpeechIsFailure ==
    \A w \in Workers :
        local[w].nseg = Some(0)
        => /\ Exited(w)
           /\ result[w].kind = "raised"
           /\ result[w].msg = <<"No speech detected">>
           /\ ~Called(w, "translate_segments")
           /\ ~Called(w, "synthesize_segments")
           /\ ~Called(w, "upload_video")
           /\ ~Called(w, "upload_source_subtitle")
           /\ ~Called(w, "upload_target_subtitle")
           /\ ~Called(w, "complete_job")
           /\ \A i \in DOMAIN hist[w] : hist[w][i].st # "done"
           /\ StatusAtExit(w) # "done"

\* C3 witness: a run in which the transcription returned no segment has ended.
C3_Witness ==
    \E w \in Workers : local[w].nseg = Some(0) /\ Exited(w) /\ Called(w, "transcribe_audio")


\* C4: when a call of the media toolchain adapter, the AI client or the
\* subtitle codec raises, fail_job has written failed and the error message
\* by the time process_job raises: it is the run's last event and the
\* caller finds the job failed with that message.
AdapterErrors == {"FFmpegError", "AIServiceError", "SubtitleError", "FileNotFoundError"}

C4_FailureWrittenBeforeRaise ==
    \A w \in Workers :
        (RaisedInRun(w) /\ result[w].cause \in AdapterErrors)
        => /\ hist[w] # <<>>
           /\ hist[w][Len(hist[w])] = WriteEv("fail_job", "failed", -1)
           /\ result[w].row # None
           /\ result[w].row[1].status = "failed"
           /\ result[w].row[1].error_message = Some(result[w].msg)
           /\ result[w].msg[1] = ErrorPrefix(result[w].cause)

\* C4 witness: save_srt raised SubtitleError and the run ended with the job
\* recorded as failed.
C4_Witness ==
    \E w \in Workers :
        /\ RaisedInRun(w)
        /\ result[w].cause = "SubtitleError"
        /\ Called(w, "save_srt")
        /\ StatusAtExit(w) = "failed"

C6_OutputsOnlyDoneErrorOnlyFailed ==
    \A j \in DOMAIN jobs :
        /\ (\/ jobs[j].output_video_s3_key # None
            \/ jobs[j].source_subtitle_s3_key # None
            \/ jobs[j].target_subtitle_s3_key # None) => jobs[j].status = "done"
        /\ jobs[j].error_message # None => jobs[j].status = "failed"

\* C7, as claimed: once process_job has returned or raised, the workspace
\* it created no longer exists.
C7_WorkspaceGoneAtExit ==
    \A w \in Workers : (Exited(w) /\ ws[w] # "none") => ws[w] = "removed"

\* C7, amended: on every exit path of the try block _cleanup_temp_dir has
\* run: the workspace is removed, or its removal failed and was swallowed.
C7_CleanupOnEveryExit ==
    \A w \in Workers :
        (Exited(w) /\ result[w].msg # <<"Job not found">>)
        => ws[w] \in CleanupOutcomes

\* C7 witness: a run ended by an unexpected failure (an upload error) and
\* its workspace was removed.
C7_Witness ==
    \E w \in Workers :
        /\ RaisedInRun(w)
        /\ result[w].cause = "S3ServiceError"
        /\ Called(w, "upload_video")
        /\ ws[w] = "removed"

\* The statuses of the pipeline, in order.
Chain == <<"processing", "transcribing", "translating", "synthesizing",
           "processing_video", "done">>
InChain(st) == \E i \in DOMAIN Chain : Chain[i] = st
Rank(st) == CHOOSE i \in DOMAIN Chain : Chain[i] = st

C9_ProgressMonotone ==
    \A w \in Workers :
        LET P == ProgressWrites(w)
        IN /\ \A i \in DOMAIN P : P[i].pr \in 0..100
           /\ \A i, k \in DOMAIN P : i < k => P[i].pr <= P[k].pr

\* C9 witness: a complete run, from progress 0 to progress 100 through a
\* strictly larger value at each status.
C9_Witness ==
    \E w \in Workers :
        LET P == ProgressWrites(w)
        IN /\ Exited(w)
           /\ result[w].kind = "returned"
           /\ P[1].pr = 0
           /\ P[Len(P)].pr = 100
           /\ \E i \in DOMAIN P : P[i].pr = 10

\* The event that follows the call of extract_audio, if any.
AfterExtract(w) ==
    {hist[w][i + 1] : i \in {k \in 1..(Len(hist[w]) - 1) :
                                hist[w][k] = CallEv("extract_audio")}}
\* The first write of the status transcribing, if any.
FirstTranscribing(w) ==
    LET S == StatusWrites(w)
    IN {S[i] : i \in {k \in DOMAIN S :
                        /\ S[k].st = "transcribing"
                        /\ \A m \in 1..(k - 1) : S[m].st # "transcribing"}}

\* The (status, progress) pairs of the ranges the claim and the amended
\* claim share.
RangeCheckpoints ==
    {<<"processing", 0>>, <<"done", 100>>}
    \cup {<<"translating", p>> : p \in 25..50}
    \cup {<<"synthesizing", p>> : p \in 50..70}
    \cup {<<"processing_video", p>> : p \in 70..95}

\* The pairs a run wrote together.
Pairs(w) == {<<hist[w][i].st, hist[w][i].pr>> :
                i \in {k \in DOMAIN hist[w] :
                          hist[w][k].st \notin {"", "failed"}}}

\* C10, as claimed: transcribing is written at 5 when it starts and at 25
\* once the audio is extracted, and the other pairs are in their ranges.
C10_ClaimedCheckpoints ==
    \A w \in Workers :
        /\ Pairs(w) \subseteq RangeCheckpoints
                \cup {<<"transcribing", 5>>, <<"transcribing", 25>>}
        /\ \A e \in FirstTranscribing(w) : e.pr = 5
        /\ \A e \in AfterExtract(w) :
              e.op = "update_job_status" => (e.st = "transcribing" /\ e.pr = 25)

\* C10, amended: transcribing is written at 5 when it starts and at 10 once
\* the audio is extracted, and the other pairs are in their ranges.
C10_Checkpoints ==
    \A w \in Workers :
        /\ Pairs(w) \subseteq RangeCheckpoints
                \cup {<<"transcribing", 5>>, <<"transcribing", 10>>}
        /\ \A e \in FirstTranscribing(w) : e.pr = 5
        /\ \A e \in AfterExtract(w) :
              e.op = "update_job_status" => (e.st = "transcribing" /\ e.pr = 10)

\* C10 witness: a complete run, which wrote transcribing after the audio
\* extraction and every later status up to done.
C10_Witness ==
    \E w \in Workers :
        /\ Exited(w)
        /\ result[w].kind = "returned"
        /\ AfterExtract(w) # {}
        /\ <<"done", 100>> \in Pairs(w)
        /\ <<"processing_video", 95>> \in Pairs(w)

\* The positions of an external call in the run's events.
CallsAt(w, name) == {i \in DOMAIN hist[w] : hist[w][i] = CallEv(name)}

\* C11: a run in which every step succeeded returns with the job done at
\* progress 100, the probed duration stored and the three output references
\* set; and a run writes done only after the three uploads, in order, were
\* followed by the progress write that follows them.
C11_SuccessfulRun ==
    \A w \in Workers :
        /\ (Exited(w) /\ result[w].kind = "returned")
           => /\ result[w].row # None
              /\ result[w].row[1].status = "done"
              /\ result[w].row[1].progress = 100
              /\ local[w].duration # None
              /\ result[w].row[1].video_duration_seconds = local[w].duration
              /\ result[w].row[1].output_video_s3_key # None
              /\ result[w].row[1].source_subtitle_s3_key # None
              /\ result[w].row[1].target_subtitle_s3_key # None
        /\ \A i \in DOMAIN hist[w] :
              hist[w][i].st = "done"
              => \E a \in CallsAt(w, "upload_video"),
                    b \in CallsAt(w, "upload_source_subtitle"),
                    c \in CallsAt(w, "upload_target_subtitle") :
                    /\ a < b /\ b < c /\ c + 1 < i
                    /\ hist[w][c + 1] =
                          WriteEv("update_job_status", "processing_video", 95)

\* C11 witness: a run of a video of accepted duration has returned after
\* complete_job.
C11_Witness ==
    \E w \in Workers :
        /\ Exited(w)
        /\ result[w].kind = "returned"
        /\ local[w].duration = Some(MAX_VIDEO_DURATION)
        /\ Called(w, "complete_job")
        /\ Called(w, "upload_target_subtitle")

\* C14: when the translation provider returns one string less than there
\* are segments, translate_segments raises instead of returning a list, the
\* run goes no further and ends with the job failed and an error_message
\* that reports the count mismatch.
C14_CountMismatchFailsJob ==
    \A w \in Workers :
        (local[w].ntrans # None /\ local[w].ntrans # local[w].nseg)
        => /\ Exited(w)
           /\ result[w].kind = "raised"
           /\ result[w].cause = "AIServiceError"
           /\ ~Called(w, "synthesize_segments")
           /\ result[w].row # None
           /\ result[w].row[1].status = "failed"
           /\ result[w].row[1].error_message =
                 Some(<<"AI service error", "Translation count mismatch">>)

\* C14 witness: a run whose translation provider returned one string less
\* than the transcription has segments has ended.
C14_Witness ==
    \E w \in Workers :
        /\ Exited(w)
        /\ Called(w, "translate_segments")
        /\ local[w].nseg # None /\ local[w].ntrans # None
        /\ local[w].ntrans[1] = local[w].nseg[1] - 1

\* C12: _retry_with_backoff calls the wrapped operation at most 3 times; it
\* has slept 1s after the first failure and 2s after the second and does
\* not sleep after the third; it raises only after 3 failed calls, and then
\* without a result and with the last error the operation raised, which
\* the AIServiceError of the method carries.
C12_RetryPolicy ==
    /\ func_calls <= 3
    /\ Len(errors) <= func_calls
    /\ sleeps = SubSeq(<<1, 2>>, 1, Min(Len(errors), 2))
    /\ helper.kind = "raised" <=> Len(errors) = 3
    /\ helper.kind = "raised"
       => /\ func_calls = 3
          /\ helper.value = None
          /\ helper.cause = Some(errors[3])
    /\ (ai_result.kind = "raised" /\ helper.kind = "raised")
       => ai_result.msg = <<Description(ai_result.method), "failed", errors[3]>>

\* C12 witness: the helper raised after three failed calls, the last error
\* being another one than the first.
C12_Witness ==
    /\ helper.kind = "raised"
    /\ ai_result.kind = "raised"
    /\ func_calls = 3
    /\ errors[1] # errors[3]

\* C13: when translate_segments raises because the reply did not parse or
\* held the wrong number of strings, the provider has been called again up
\* to the retry policy's three calls, with the delays of 1s and 2s.
C13_BadReplyIsRetried ==
    (/\ ai_result.kind = "raised"
     /\ ai_result.method = "translate_segments"
     /\ ai_result.msg \in {<<"Failed to parse translation response">>,
                           <<"Translation count mismatch">>})
    => /\ func_calls = MAX_RETRIES + 1
       /\ sleeps = RETRY_DELAYS

\* Two segment lists of the same length whose elements carry, position by
\* position, the same id, start and end.
SameIdentity(xs, ys) ==
    /\ Len(xs) = Len(ys)
    /\ \A i \in DOMAIN xs :
          /\ xs[i].id = ys[i].id
          /\ xs[i].start = ys[i].start
          /\ xs[i].end = ys[i].end

\* C15: the list translate_segments returns and the list
\* synthesize_segments returns have the length of the transcription list
\* and carry its ids, starts and ends position by position.
C15_SegmentsPreserved ==
    /\ translation # None => SameIdentity(translation[1], segments[1])
    /\ synthesized # None => SameIdentity(synthesized[1], segments[1])

\* C15 witness: two segments with different times were transcribed,
\* translated and synthesized.
C15_Witness ==
    /\ synthesized # None
    /\ Len(segments[1]) = 2
    /\ segments[1][1].start # segments[1][2].start
    /\ Len(synthesized[1]) = 2

\* C16: a poll that finds no queued job claims nothing; otherwise it
\* claims a queued job whose created_at is the smallest among the queued
\* jobs, and never a job in another status.
C16_OldestQueuedFirst ==
    [][\A w \in Workers :
          (pc[w] = "poll" /\ pc'[w] # "poll")
          => LET Q == {j \in DOMAIN jobs : jobs[j].status = "queued"}
             IN IF Q = {}
                THEN cur'[w] = 0 /\ pc'[w] = "loop"
                ELSE /\ cur'[w] \in Q
                     /\ \A k \in Q :
                           jobs[cur'[w]].created_at <= jobs[k].created_at]_vars

\* C16 witness: two jobs were queued and the worker holds the older one.
C16_Witness ==
    \E w \in Workers, j, k \in DOMAIN jobs :
        /\ pc[w] = "claimed" /\ cur[w] = j
        /\ jobs[j].status = "queued" /\ jobs[k].status = "queued"
        /\ jobs[j].created_at < jobs[k].created_at

\* The worker is inside process_next_job with a job: from the claim to the
\* return of process_job.
Busy(w) == pc[w] \notin {"loop", "poll", "stopped"}

\* C17: a worker takes a job only from a poll made while it holds none,
\* holds it until process_job has returned or raised, and polls only
\* while it holds no job.
C17_OneRunAtATime ==
    [][\A w \in Workers :
          /\ cur'[w] # cur[w]
             => \/ cur[w] = 0 /\ pc[w] = "poll" /\ hist[w] = <<>>
                \/ cur'[w] = 0 /\ pc[w] = "exited" /\ result[w].kind # ""
          /\ pc'[w] = "poll" => ~Busy(w)
          /\ Busy(w) <=> cur[w] # 0]_vars

\* C17 witness: a run has returned while another job was waiting in the
\* queue.
C17_Witness ==
    \E w \in Workers, j \in DOMAIN jobs :
        /\ Exited(w) /\ result[w].kind = "returned"
        /\ j # cur[w]
        /\ jobs[j].status = "queued"

\* C19: a worker claims only a job whose status is queued and writes
\* processing before the run; and no step of a worker sets a status to
\* queued: only an enqueue request does. So a job that has run, failed or
\* not, is not run again without a new enqueue request.
C19_NoAutomaticRetry ==
    [][/\ \A w \in Workers :
            /\ (cur'[w] # cur[w] /\ cur'[w] # 0)
               => jobs[cur'[w]].status = "queued"
            /\ (pc[w] = "claimed" /\ pc'[w] # "claimed" /\ HasJob(jobs, cur[w]))
               => jobs'[cur[w]].status = "processing"
       /\ \A j \in DOMAIN jobs :
            (jobs[j].status # "queued" /\ jobs'[j].status = "queued")
            => (enqueues' = enqueues + 1 /\ pc' = pc)]_vars

\* C19 witness: a run has failed and the worker is polling again; the
\* failed job is in the store and no job is queued.
C19_Witness ==
    \E w \in Workers, j \in DOMAIN jobs :
        /\ pc[w] = "poll" /\ enqueues > 0
        /\ jobs[j].status = "failed"
        /\ \A k \in DOMAIN jobs : jobs[k].status # "queued"

\* C18: the shutdown signal only clears the running flag; a worker that
\* holds a job when the flag is cleared keeps stepping through
\* process_job up to its end, and from the head of the loop a worker whose
\* flag is cleared only stops, for good, without polling.
C18_ShutdownWaitsForRun ==
    [][\A w \in Workers :
          /\ (running[w] /\ ~running'[w])
             => /\ pc' = pc /\ cur' = cur /\ hist' = hist
                /\ jobs' = jobs /\ result' = result
          /\ (~running[w] /\ Busy(w) /\ pc'[w] # pc[w])
             => /\ pc'[w] # "stopped"
                /\ pc'[w] = "loop" => (Exited(w) /\ result[w].kind # "")
          /\ (~running[w] /\ pc[w] = "loop") => pc'[w] \in {"loop", "stopped"}
          /\ pc[w] = "stopped" => (pc'[w] = "stopped" /\ cur'[w] = 0)]_vars

\* C18 witness: the running flag is cleared, the run has gone to its end
\* and returned, and another job is waiting in the queue.
C18_Witness ==
    \E w \in Workers, j \in DOMAIN jobs :
        /\ ~running[w]
        /\ Exited(w) /\ result[w].kind = "returned"
        /\ j # cur[w] /\ jobs[j].status = "queued"

\* The worker is inside the try block of process_job.
InPipeline(w) == ws[w] = "exists" /\ ~Exited(w)

\* C20: the claim of a job is a read followed by a separate write: the
\* poll that returns a job leaves the Job Store as it is, the job still
\* queued, and processing is written by a later step.
C20_ClaimIsReadThenWrite ==
    [][\A w \in Workers :
          (pc[w] = "poll" /\ pc'[w] = "claimed")
          => /\ jobs' = jobs
             /\ jobs'[cur'[w]].status = "queued"]_vars

\* C20 witness: the two workers are inside process_job for the same job
\* at the same time.
C20_Witness ==
    /\ cur["w1"] # 0
    /\ cur["w1"] = cur["w2"]
    /\ InPipeline("w1") /\ InPipeline("w2")


\* C21: process_job for a job id that is not in the Job Store raises to the
\* caller at its lookup: that step changes nothing in the Job Store, writes
\* no failure record and leaves the run without a workspace.
C21_MissingJobOnlyRaises ==
    [][\A w \in Solo :
        (pc[w] = "enter" /\ pc'[w] # "enter" /\ ~HasJob(jobs, cur[w])) =>
            /\ pc'[w] = "exited"
            /\ result'[w].kind = "raised"
            /\ result'[w].cause = "JobProcessingError"
            /\ result'[w].msg = <<"Job not found">>
            /\ jobs' = jobs
            /\ hist'[w] = hist[w]
            /\ ~\E i \in DOMAIN hist'[w] : hist'[w][i].op = "fail_job"
            /\ ws'[w] = "none"]_vars
\* A run that was handed the id of a job deleted in the meantime has ended.
C21_Witness ==
    \E w \in Solo :
        /\ Exited(w)
        /\ cur[w] # 0
        /\ ~HasJob(jobs, cur[w])
        /\ result[w].msg = <<"Job not found">>

\* C22: a tool invocation that times out is not retried: the operation ends
\* with the adapter's FFmpegError whose message contains "timed out", and
\* the invocation that timed out was made exactly once (it is the only
\* invocation of the call, except for the second probe of
\* get_video_metadata).
C22_TimeoutNotRetried ==
    (ff_pc = "done" /\ ff_proc.kind = "timeout") =>
        /\ ff_result.kind = "raised"
        /\ ff_result.exc = "FFmpegError"
        /\ Contains(ff_result.msg, "timed out")
        /\ ff_spawned # <<>>
        /\ Cardinality({i \in DOMAIN ff_spawned :
                            ff_spawned[i] = ff_spawned[Len(ff_spawned)]}) = 1
        /\ Len(ff_spawned) = IF ff_op = "get_video_metadata"
                                /\ ff_spawned[Len(ff_spawned)].description
                                       = "Get audio codec of video.mp4"
                             THEN 2 ELSE 1
\* An extraction has ended on a timeout of its one invocation.
C22_Witness ==
    /\ ff_pc = "done"
    /\ ff_op = "extract_audio"
    /\ ff_proc.kind = "timeout"
    /\ Len(ff_spawned) = 1
    /\ ff_result.msg = TimedOutMsg("FFmpeg", "Extract audio from video.mp4")

\* C23: an operation called with a missing input file, or
\* concatenate_audio_files called with an empty list, ends with
\* FileNotFoundError (ValueError for the empty list) and has not invoked the
\* tool.
C23_PreconditionsBeforeSpawn ==
    (/\ ff_op # ""
     /\ \/ \E i \in DOMAIN ff_inputs : ~ff_inputs[i]
        \/ ff_op = "concatenate_audio_files" /\ ff_inputs = <<>>) =>
        /\ ff_spawned = <<>>
        /\ ff_pc = "done"
        /\ ff_result.kind = "raised"
        /\ ff_result.exc =
             IF ff_inputs = <<>> THEN "ValueError" ELSE "FileNotFoundError"
\* A mux called with its video present and its audio missing has ended.
C23_Witness ==
    /\ ff_pc = "done"
    /\ ff_op = "mux_audio_video"
    /\ ff_inputs = <<TRUE, FALSE>>
    /\ ff_result.exc = "FileNotFoundError"
    /\ ff_spawned = <<>>

\* C24: a transform operation whose tool exited with code 0 and left no
\* output file ends with FFmpegError and not with the output path; an
\* operation whose tool exited with another code ends with FFmpegError
\* carrying the tool's stderr.
C24_ExitCodeAndOutput ==
    /\ (/\ ff_pc = "done"
        /\ ff_op \in TransformOps
        /\ ff_proc.kind = "exit" /\ ff_proc.code = 0
        /\ ~ff_proc.out) =>
            /\ ff_result.kind = "raised"
            /\ ff_result.exc = "FFmpegError"
            /\ Contains(ff_result.msg, "output file not created")
    /\ (/\ ff_proc.kind = "exit" /\ ff_proc.code # 0) =>
            /\ ff_pc = "done"
            /\ ff_result.kind = "raised"
            /\ ff_result.exc = "FFmpegError"
            /\ Contains(ff_result.msg, ff_proc.stderr)
\* A concatenation whose tool exited with code 0 without an output file has
\* ended.
C24_Witness ==
    /\ ff_pc = "done"
    /\ ff_op = "concatenate_audio_files"
    /\ ff_proc.kind = "exit" /\ ff_proc.code = 0 /\ ~ff_proc.out
    /\ ff_result.kind = "raised"

\* ------------------------------------------------- reading the codec's use
\* The segment has a text that strip() leaves as it is and that is not
\* empty, and times that are not negative and in order.
Plain(seg) ==
    /\ seg.text # <<>>
    /\ Strip(seg.text) = seg.text
    /\ 0 <= seg.start /\ seg.start <= seg.end
\* The time is a whole number of milliseconds, as Python reads the decimal.
WholeMs(time) == \E ms \in {0, 1001, 2000, 3000} : time = Float(ms)
\* validate_srt listed the violation for block i.
Reported(i, what) ==
    \E k \in DOMAIN srt_valid.errors : srt_valid.errors[k] = Violation(i, what)
\* The block was written with a start and an end that can be read.
Timed(b) == b.kind \in {"ok", "badnum", "short"}
\* The block was written with at least three lines.
ThreeLines(b) == b.kind # "short"
\* The block was written well formed, and the dict parse_srt owes for it.
WellFormed(b) == b.kind = "ok"
DictOf(b) ==
    Segment(b.num, b.span[1] * TicksPerMs, b.span[2] * TicksPerMs,
            IF b.rows = 2 THEN <<Word("hello"), NL, Word("world")>>
            ELSE <<Word("hello")>>)
\* An SRT text written from blocks has been validated.
ValidatedText == srt_pc = "validated" /\ srt_blocks # <<>>

\* C25: a non-empty list of segments with plain texts and whole-millisecond
\* times, encoded and decoded, gives as many segments with the same start,
\* end and text; and for any list with plain texts, encoding the decoded
\* segments again gives the same SRT text.
C25_RoundTrip ==
    (srt_pc = "reencoded" /\ srt_given # <<>>
        /\ \A k \in DOMAIN srt_given : Plain(srt_given[k])) =>
        /\ (\A k \in DOMAIN srt_given :
                WholeMs(srt_given[k].start) /\ WholeMs(srt_given[k].end)) =>
            /\ Len(srt_parsed.value) = Len(srt_given)
            /\ \A k \in DOMAIN srt_given :
                /\ srt_parsed.value[k].start = srt_given[k].start
                /\ srt_parsed.value[k].end = srt_given[k].end
                /\ srt_parsed.value[k].text = srt_given[k].text
        /\ srt_reencoded = srt_encoded

\* C26: for a time t that is not negative, format_srt_time gives the
\* timestamp of t's whole milliseconds (the rest is cut off, not rounded) and
\* parse_srt_time of it is at most 1 ms from t; 3661.123 gives 01:01:01,123
\* and comes back as 3661.123.
C26_TimeRoundTrip ==
    (srt_pc = "timed" /\ srt_time >= 0) =>
        /\ srt_stamp = <<StampOf(srt_time \div TicksPerMs)>>
        /\ srt_back # None
        /\ srt_back[1] - srt_time <= TicksPerMs
        /\ srt_time - srt_back[1] <= TicksPerMs
        /\ srt_time = Float(3661123) =>
            /\ srt_stamp = <<Stamp(<<1, 1, 1, 123>>)>>
            /\ srt_back = Some(srt_time)
\* A time between two milliseconds has been formatted to the earlier one and
\* parsed back.
C26_Witness ==
    /\ srt_pc = "timed"
    /\ srt_time = 60 * TicksPerSecond - 1
    /\ srt_stamp = <<Stamp(<<0, 0, 59, 999>>)>>
    /\ srt_back = Some(59999 * TicksPerMs)

ValidIffNoViolation ==
    /\ srt_pc = "validated" => (srt_valid.valid <=> srt_valid.errors = <<>>)
    /\ (srt_pc = "validated" /\ Strip(srt_content) = <<>>) =>
            srt_valid = [valid |-> FALSE,
                         errors |-> <<Violation(0, "Empty SRT content")>>]
\* The violations block i was written with that are listed for it: a number
\* that is not its position, an end not after its start, a start before the
\* previous block's end.
NumberListed(i) ==
    (srt_blocks[i].kind # "badnum" /\ srt_blocks[i].num # i) =>
        Reported(i, "Segment ID mismatch")
EndListed(i) ==
    (Timed(srt_blocks[i]) /\ srt_blocks[i].span[2] <= srt_blocks[i].span[1]) =>
        Reported(i, "End time <= start time")
OverlapListed(i) ==
    (/\ i > 1
     /\ Timed(srt_blocks[i])
     /\ Timed(srt_blocks[i - 1]) /\ ThreeLines(srt_blocks[i - 1])
     /\ srt_blocks[i].span[1] < srt_blocks[i - 1].span[2]) =>
        Reported(i, "Overlapping with previous segment")

C29_MalformedBlocksSkipped ==
    (srt_pc \in {"parsed", "validated"} /\ srt_blocks # <<>>) =>
        LET good == SelectSeq(srt_blocks, WellFormed)
        IN srt_parsed = SrtReturned([k \in DOMAIN good |-> DictOf(good[k])])

\* C30: a segment list in which a segment with text has a negative start or
\* end is encoded, and the negative time is written as 00:00:00,000.
C30_NegativeClamped ==
    (/\ srt_pc = "encoded"
     /\ \E k \in DOMAIN srt_given :
            /\ Strip(srt_given[k].text) # <<>>
            /\ srt_given[k].start < 0 \/ srt_given[k].end < 0) =>
        /\ srt_encoded.kind = "returned"
        /\ \E j \in DOMAIN srt_encoded.value :
                srt_encoded.value[j] = Stamp(<<0, 0, 0, 0>>)

\* ------------------------------------------- reading the Blob Store's calls
\* The waits after the first n failed attempts: 2^0, ..., 2^(n-1).
Backoff(n) == [k \in 1..n |-> Pow2(k - 1)]
\* The call goes through the retry loop (not the local storage branch).
Retrying == s3_pc \in {"try", "done"} /\ ~is_dev

\* C31: upload_file_with_retry and download_file_with_retry make at most
\* max_retries + 1 attempts; after the k-th attempt (from 0) failed with the
\* storage error they have waited 2^0, ..., 2^k seconds and no more, except
\* after attempt max_retries, where the error of that attempt is re-raised
\* with no further wait; they return at the first success with no further
\* attempt or wait.
C31_StorageRetry ==
    Retrying =>
        LET failed == Len(s3_errors)
        IN /\ s3_tries <= max_retries + 1
           /\ s3_pc = "try" =>
                 /\ s3_tries = failed
                 /\ failed <= max_retries
                 /\ s3_sleeps = Backoff(failed)
           /\ (s3_pc = "done" /\ s3_result.kind = "returned") =>
                 /\ s3_tries = failed + 1
                 /\ s3_sleeps = Backoff(failed)
           /\ (s3_pc = "done" /\ s3_result.exc = "ClientError") =>
                 /\ failed = max_retries + 1
                 /\ s3_tries = max_retries + 1
                 /\ s3_sleeps = Backoff(max_retries)
                 /\ s3_result.kind = "raised"
                 /\ s3_result.code = s3_errors[failed]

\* A call with the default max_retries has failed four times: it waited
\* 1s, 2s and 4s and re-raised the last error.
C31_Witness ==
    /\ Retrying /\ s3_pc = "done"
    /\ max_retries = DEFAULT_MAX_RETRIES
    /\ s3_result.exc = "ClientError"
    /\ s3_tries = 4
    /\ s3_sleeps = <<1, 2, 4>>

\* The progress range the status endpoint documents for a status.
DocumentedRange(st) ==
    CASE st = "transcribing" -> 0..25
      [] st = "translating" -> 25..50
      [] st = "synthesizing" -> 50..75
      [] st = "processing_video" -> 75..100
      [] OTHER -> 0..100

\* C32: whatever row a client polling GET /jobs/{job_id} reads, its progress
\* lies in the range the endpoint documents for the row's status.
C32_ProgressInDocumentedRange ==
    \A j \in DOMAIN jobs : jobs[j].progress \in DocumentedRange(jobs[j].status)

\* The documented order of a run: every external step, each followed by the
\* Job Store write that follows it in process_job (the first write is the
\* worker loop's own, before process_job is entered).
DocumentedOrder ==
    <<WriteEv("update_job_status", "processing", 0),
      WriteEv("update_job_status", "processing", 0),
      CallEv("download_file_with_retry"),
      CallEv("get_video_duration"),
      WriteEv("update_video_duration", "", -1),
      WriteEv("update_job_status", "transcribing", 5),
      CallEv("extract_audio"),
      WriteEv("update_job_status", "transcribing", 10),
      CallEv("transcribe_audio"),
      WriteEv("update_job_status", "translating", 25),
      CallEv("translate_segments"),
      WriteEv("update_job_status", "synthesizing", 50),
      CallEv("synthesize_segments"),
      WriteEv("update_job_status", "processing_video", 70),
      CallEv("concatenate_audio_files"),
      WriteEv("update_job_status", "processing_video", 80),
      CallEv("save_srt"),
      CallEv("save_srt"),
      WriteEv("update_job_status", "processing_video", 85),
      CallEv("mux_audio_video"),
      WriteEv("update_job_status", "processing_video", 90),
      CallEv("upload_video"),
      CallEv("upload_source_subtitle"),
      CallEv("upload_target_subtitle"),
      WriteEv("update_job_status", "processing_video", 95),
      WriteEv("complete_job", "done", 100),
      WriteEv("update_job_status", "done", 100)>>

IsNotFailure(e) == e.op # "fail_job"
\* The events of the run before the failure was recorded, if it was.
Steps(w) == SelectSeq(hist[w], IsNotFailure)

FromTranscribing == {"transcribing", "translating", "synthesizing",
                     "processing_video", "done"}
\* The positions of the run's duration writes and transcribing writes.
DurationWrites(w) ==
    {i \in DOMAIN hist[w] : hist[w][i].op = "update_video_duration"}
TranscribingWrites(w) ==
    {i \in DOMAIN hist[w] : hist[w][i].st = "transcribing"}

\* C34: a run writes video_duration_seconds only after its probe measured a
\* duration not above the maximum, and before it first writes transcribing;
\* a run whose probe measured more writes no duration; a duration equal to
\* the maximum is stored; and every job whose status is transcribing or later
\* has a stored duration not above the maximum.
C34_DurationWrittenAfterCheck ==
    /\ \A w \in Solo :
          /\ \A i \in DurationWrites(w) :
                /\ local[w].duration # None
                /\ local[w].duration[1] <= MAX_VIDEO_DURATION
                /\ hist[w][i - 1] = CallEv("get_video_duration")
                /\ \A k \in TranscribingWrites(w) : i < k
          /\ TranscribingWrites(w) # {} => DurationWrites(w) # {}
          /\ (local[w].duration # None /\ local[w].duration[1] > MAX_VIDEO_DURATION)
                => DurationWrites(w) = {}
          /\ (local[w].duration # None /\ local[w].duration[1] <= MAX_VIDEO_DURATION)
                => /\ DurationWrites(w) # {}
                   /\ jobs[cur[w]].video_duration_seconds = local[w].duration
    /\ \A j \in DOMAIN jobs :
          /\ jobs[j].status \in FromTranscribing =>
                /\ jobs[j].video_duration_seconds # None
                /\ jobs[j].video_duration_seconds[1] <= MAX_VIDEO_DURATION
          /\ jobs[j].video_duration_seconds # None =>
                jobs[j].video_duration_seconds[1] <= MAX_VIDEO_DURATION

\* A video exactly at the maximum was accepted: its duration is stored and
\* the job is transcribing.
C34_Witness ==
    \E w \in Solo :
        /\ cur[w] \in DOMAIN jobs
        /\ local[w].duration = Some(MAX_VIDEO_DURATION)
        /\ jobs[cur[w]].status = "transcribing"
        /\ jobs[cur[w]].video_duration_seconds = Some(MAX_VIDEO_DURATION)

\* The worker has claimed job j: it read it as the next pending job and
\* marked it processing.
Claimed(j) ==
    \E w \in Solo :
        /\ cur[w] = j /\ pc[w] = "enter"
        /\ HasJob(jobs, j) /\ jobs[j].status = "processing"

\* C35: with one running worker, every queued job is eventually claimed,
\* whatever happens in the runs of the jobs before it.
C35_QueuedEventuallyClaimed ==
    \A j \in JobIds :
        (HasJob(jobs, j) /\ jobs[j].status = "queued") ~> Claimed(j)

\* The second job is claimed after the run of the first one ended with a
\* recorded failure.
C35_Witness ==
    /\ Claimed(2)
    /\ jobs[1].status = "failed"

\* C36: when the retry helper has returned, it has called the provider once
\* more than the provider failed, at most three times, it has slept exactly
\* the delays that follow the failures, and it returned a result.
C36_ReturnsAtFirstSuccess ==
    helper.kind = "returned" =>
        /\ func_calls = Len(errors) + 1
        /\ func_calls <= MAX_RETRIES + 1
        /\ sleeps = SubSeq(RETRY_DELAYS, 1, func_calls - 1)
        /\ attempt = func_calls - 1
        /\ helper.value # None
        /\ helper.cause = None

\* The helper returned the result of its third call, after two failures and
\* both delays.
C36_Witness ==
    /\ helper.kind = "returned"
    /\ func_calls = 3
    /\ Len(errors) = 2
    /\ sleeps = <<1, 2>>

\* C37: an enqueue request changes the status of no job that is being
\* processed, is done or has failed: it only moves a created job to queued.
C37_EnqueueOnlyFromCreated ==
    [][enqueues' # enqueues =>
          \A j \in DOMAIN jobs :
              jobs[j].status \notin {"created", "queued"} =>
                  jobs'[j].status = jobs[j].status]_vars

\* The segments have positive durations and none starts before the one
\* before it ends; at least one has text.
Orderly(segs) ==
    /\ \A k \in DOMAIN segs : 0 <= segs[k].start /\ segs[k].start < segs[k].end
    /\ \A k \in DOMAIN segs : k > 1 => segs[k].start >= segs[k - 1].end
    /\ \E k \in DOMAIN segs : Strip(segs[k].text) # <<>>
\* The blocks of the SRT text that was validated.
BlocksOf(content) == Split(Strip(content), <<NL, NL>>)

\* C38: the text generate_srt returns for segments with positive durations
\* and no overlaps has its blocks numbered 1, 2, ..., K in written order,
\* also when segments without text were skipped, and passes validate_srt.
C38_BlocksNumberedConsecutively ==
    (srt_pc = "validated" /\ srt_encoded.kind = "returned" /\ Orderly(srt_given)) =>
        /\ \A k \in DOMAIN BlocksOf(srt_content) :
              BlocksOf(srt_content)[k][1] = Num(k)
        /\ srt_valid.valid

\* The fields of a row that fail_job leaves alone.
KeptFields == {"progress", "video_duration_seconds", "output_video_s3_key",
               "source_subtitle_s3_key", "target_subtitle_s3_key", "created_at"}
\* The step of worker w in which process_job's except clause calls fail_job.
FailJobStep(w) ==
    /\ pc[w] # "exited" /\ pc'[w] = "exited"
    /\ result'[w].kind = "raised"
    /\ RecordsFailure(result'[w].cause)

\* C39: the step in which fail_job is called sets the job's status to failed
\* and its error_message to the message, and leaves the job's progress,
\* video_duration_seconds, output references and every other row as they
\* were; for a job that does not exist it changes nothing and returns None.
C39_FailJobFrame ==
    [][\A w \in Solo :
        FailJobStep(w) =>
            LET j == cur[w]
                msg == result'[w].msg
            IN IF HasJob(jobs, j)
               THEN /\ DOMAIN jobs' = DOMAIN jobs
                    /\ jobs'[j].status = "failed"
                    /\ jobs'[j].error_message = Some(msg)
                    /\ \A f \in KeptFields : jobs'[j][f] = jobs[j][f]
                    /\ \A k \in DOMAIN jobs \ {j} : jobs'[k] = jobs[k]
                    /\ fail_job_returns(jobs, j, msg) = Some(jobs'[j])
               ELSE /\ jobs' = jobs
                    /\ fail_job_returns(jobs, j, msg) = None]_vars

\* fail_job has been called for a job that had reached progress 50 with its
\* duration stored: the failed row still shows both.
C39_Witness ==
    \E w \in Solo :
        /\ Exited(w) /\ result[w].kind = "raised"
        /\ RecordsFailure(result[w].cause)
        /\ result[w].row # None
        /\ result[w].row[1].status = "failed"
        /\ result[w].row[1].progress = 50
        /\ result[w].row[1].video_duration_seconds = Some(MAX_VIDEO_DURATION)

\* C40: when process_job has returned success, the job's row is in the Job
\* Store with status done, progress 100 and the three output references,
\* whatever the API did to the job during the run.
C40_SuccessMeansDone ==
    \A w \in Solo :
        (Exited(w) /\ result[w].kind = "returned") =>
            /\ result[w].row # None
            /\ result[w].row[1].status = "done"
            /\ result[w].row[1].progress = 100
            /\ result[w].row[1].output_video_s3_key # None
            /\ result[w].row[1].source_subtitle_s3_key # None
            /\ result[w].row[1].target_subtitle_s3_key # None

====
